---- MODULE Spec2Model ----
(***************************************************************************)
(* A model of the m3w-load-test repository: the k6 capacity workload       *)
(* (k6/capacity.js), the k6 upload workload (k6/upload.js), the resource   *)
(* sampler of scripts/monitor.cjs and of the runner scripts, the runners'  *)
(* main() control flow, the summary and the capacity estimate computed     *)
(* from the samples, and the stage lists handed to k6.                     *)
(*                                                                         *)
(* Each program is one specification over its own group of variables; the  *)
(* other groups keep the values Init gave them.                            *)
(***************************************************************************)
EXTENDS Integers, Sequences, FiniteSets, TLC

VARIABLES
    \* ---- k6/capacity.js: one virtual user running iterations ----
    testSongId,     \* config.testSongId ("" when TEST_SONG_ID is not set)
    weights,        \* the behavior object of k6/config.js, in hundredths
    vuPc,           \* the position of the virtual user in the iteration
    rand,           \* Math.random() of the iteration, in hundredths
    phase,          \* the branch of default() the iteration took
    trace,          \* the requests issued and pauses taken, in order
    checks,         \* results of check(), in order (TRUE = passed)
    errorRate,      \* the iteration's observations of the Rate 'errors'
    apiDuration,    \* the number of its observations of Trend 'api_duration'
    streamTTFB,     \* the number of its observations of Trend 'stream_ttfb'
    warnings,       \* the number of its console.warn lines
    thrown,         \* TRUE when the iteration ended by an exception
    \* ---- k6/upload.js: one virtual user running iterations ----
    testLibraryId,  \* config.testLibraryId ("" when TEST_LIBRARY_ID is not set)
    upPc,           \* the position of the virtual user in the iteration
    upIter,         \* __ITER, the number of the iteration
    upTrace,        \* the requests issued and pauses taken, in order
    upResponse,     \* the response of the upload request
    songId,         \* let songId: "" is null
    uploadErrors,   \* the iteration's observations of Rate 'upload_errors'
    uploadDuration, \* the number of its observations of Trend 'upload_duration'
    uploadThroughput, \* ... of Trend 'upload_throughput_mbps'
    uploadCount,    \* what it added to the Counter 'upload_count'
    upConsole,      \* the console lines of the iteration, in order
    \* ---- k6/upload.js: createUniqueFileData ----
    baseFileData,   \* the bytes of the base file
    lastCall,       \* the arguments and the Date.now() of the last call
    uniqueData,     \* the bytes the last call returned
    prevCall,       \* the same of the call before it
    prevData,
    \* ---- scripts/monitor.cjs, scripts/run-full-test.cjs,
    \*      scripts/run-upload-test.cjs: a run of one of the programs ----
    prog,           \* the program: "monitor", "full" or "upload"
    keep,           \* KEEP_CONTAINERS (--keep)
    skipK6,         \* SKIP_K6 (--skip-k6, the full runner only)
    pc,             \* the await (or the event) main() is waiting at
    exitCode,       \* let exitCode, and the code process.exit was given
    k6Started,      \* run(k6Cmd, ...) has been called
    composeUps,     \* how many times compose up was run
    composeDowns,   \* how many times compose down was run
    timer,          \* the interval: "none", "active" or "cleared"
    stopCalled,     \* clearInterval has been called
    now,            \* seconds since the interval was set (Date.now() - start)
    due,            \* the time the timer is due next
    inFlight,       \* the number of stats calls that have not returned
    callStart,      \* when the last stats call started
    callDue,        \* when the tick that made it was due
    prevStart,      \* when the stats call before it started ...
    prevEnd,        \* ... and returned (-1: there was none)
    statsCalls,     \* the number of stats calls made
    statsFailed,    \* the number of them that threw
    samples,        \* the buffer of samples
    summary,        \* the resource usage summary, once computed
    fileWritten,    \* the raw data file has been written
    pidFile,        \* the PID file of the monitor exists
    healthy,        \* waitForHealth got a response with response.ok
    attempts,       \* the i of the loop of waitForHealth (0 once it returned)
    pauses,         \* the pauses of that loop (0 once it returned)
    k6Phase,        \* the k6 child: "none", "setup", "iterating", "aborted"
    setupStatus,    \* the statuses setup() of the k6 script got (<<>>: none)
    \* ---- scripts/monitor.cjs shutdown(), scripts/run-full-test.cjs: the
    \*      summary of the m3w container and the capacity estimate ----
    aggProg,        \* the script: "monitor" or "full"
    observedVUs,    \* the concurrency k6 ran with
    cpuSamples,     \* stats['m3w'].cpuSamples
    memSamples,     \* stats['m3w'].memSamples
    aggregate,      \* summary.containers['m3w'], once computed
    estimate,       \* the capacity estimate printed
    pResult,        \* what a call of percentile() returned
    \* ---- scripts/monitor.cjs: the parsing of one stats output ----
    statsInput,     \* the lines of the output, as <<line>>
    parsed,         \* the containers parsed from it, as <<containers>>
    \* ---- options.stages of the k6 scripts ----
    stages,         \* the list of stages handed to k6
    elapsed,        \* the seconds since the start of the run
    vus,            \* the number of virtual users k6 runs
    \* ---- scripts/benchmark-upload.cjs ----
    benchPc,        \* where main() of the benchmark is
    sizeIx,         \* the index in FILE_SIZES of the outer loop
    vuIx,           \* the index in CONCURRENCY_LEVELS of the inner loop
    results,        \* const results = []
    k6Codes,        \* the exit codes of the k6 runs so far
    benchTimer,     \* monitorInterval of runUploadTest
    benchError,     \* the error main() is rejecting with ("none": none)
    benchExit,      \* the exit code of the benchmark
    \* ---- the sampling callbacks, fed the same outputs ----
    fed,            \* the number of ticks so far
    loopSamples,    \* the buffer of the callback of monitor.cjs and of
                    \* run-upload-test.cjs
    benchSamples    \* the buffer of the callback of benchmark-upload.cjs

capVars == <<testSongId, weights, vuPc, rand, phase, trace, checks, errorRate,
             apiDuration, streamTTFB, warnings, thrown>>

upVars == <<testLibraryId, upPc, upIter, upTrace, upResponse, songId,
            uploadErrors, uploadDuration, uploadThroughput, uploadCount,
            upConsole>>

synthVars == <<baseFileData, lastCall, uniqueData, prevCall, prevData>>

runVars == <<prog, keep, skipK6, pc, exitCode, k6Started, composeUps,
             composeDowns, timer,
             stopCalled, now, due, inFlight, callStart, callDue, prevStart,
             prevEnd, statsCalls, statsFailed, samples, summary, fileWritten,
             pidFile, healthy, attempts, pauses, k6Phase, setupStatus>>

aggVars == <<aggProg, observedVUs, cpuSamples, memSamples, aggregate,
             estimate, pResult>>

parseVars == <<statsInput, parsed>>

stageVars == <<stages, elapsed, vus>>

mainVars == <<benchPc, sizeIx, vuIx, results, k6Codes, benchTimer, benchError,
              benchExit>>

feedVars == <<fed, loopSamples, benchSamples>>

benchVars == <<mainVars, feedVars>>

vars == <<capVars, upVars, synthVars, runVars, aggVars, parseVars, stageVars,
         benchVars>>

-----------------------------------------------------------------------------
(***************************************************************************)
(* k6/config.js and k6/capacity.js                                         *)
(***************************************************************************)

\* The behaviour weights, in hundredths (0.05, 0.85, 0.10).
behavior == [startup |-> 5, listening |-> 85, managing |-> 10]

\* Math.random(): a draw in [0,1), in hundredths.
Draws == 0 .. 99

\* The configured song id: TEST_SONG_ID set, or the default ''.
SongIds == {"", "song-1"}

\* Status codes a response can carry (0: k6's status of a failed request).
HttpStatus == {0, 200, 201, 204, 206, 500}

\* The response body of the create request: whether it parses as JSON and
\* the id it carries.
CreateBodies == {[json |-> TRUE, id |-> "pl-1"], [json |-> TRUE, id |-> "pl-2"],
                 [json |-> FALSE, id |-> ""]}

\* sleep(30) of listeningPhase: the simulated playback.
ListeningPause == 30

\* One entry of the trace: a request with the status of its response ...
Req(method, url, id, status) ==
    [kind |-> method, url |-> url, id |-> id, status |-> status, secs |-> 0]

\* ... or a pause, sleep(secs).
Sleep(secs) ==
    [kind |-> "sleep", url |-> "", id |-> "", status |-> 0, secs |-> secs]

CapInit ==
    /\ testSongId \in SongIds
    /\ weights = behavior
    /\ vuPc = "iterate"
    /\ rand = 0
    /\ phase = "none"
    /\ trace = <<>>
    /\ checks = <<>>
    /\ errorRate = <<>>
    /\ apiDuration = 0
    /\ streamTTFB = 0
    /\ warnings = 0
    /\ thrown = FALSE

\* The capacity workload before its first iteration, with a song id.
CapIdle ==
    /\ testSongId = "song-1"
    /\ weights = behavior
    /\ vuPc = "iterate"
    /\ rand = 0
    /\ phase = "none"
    /\ trace = <<>>
    /\ checks = <<>>
    /\ errorRate = <<>>
    /\ apiDuration = 0
    /\ streamTTFB = 0
    /\ warnings = 0
    /\ thrown = FALSE

\* SelectPhase with the listening weight used as the bound, not the
\* cumulative sum.
SelectPhaseNotCumulative(r) ==
    IF r < weights.startup THEN "startup"
    ELSE IF r < weights.listening THEN "listening"
    ELSE "managing"

\* The phase default() selects for a draw: the if / else-if / else chain.
SelectPhase(r) ==
    IF r < weights.startup THEN "startup"
    ELSE IF r < weights.startup + weights.listening THEN "listening"
    ELSE "managing"

\* export default function(): the draw and the branch. With the listening
\* branch and no song id: console.warn, sleep(1), return.
Default(r) ==
    /\ vuPc = "iterate"
    /\ rand' = r
    /\ phase' = SelectPhase(r)
    /\ IF SelectPhase(r) = "startup"
         THEN /\ vuPc' = "startup_me"
              /\ UNCHANGED <<trace, warnings>>
         ELSE IF SelectPhase(r) = "listening"
           THEN IF testSongId = ""
                  THEN /\ warnings' = warnings + 1
                       /\ trace' = Append(trace, Sleep(1))
                       /\ vuPc' = "done"
                  ELSE /\ vuPc' = "listening_stream"
                       /\ UNCHANGED <<trace, warnings>>
           ELSE /\ vuPc' = "managing_create"
                /\ UNCHANGED <<trace, warnings>>
    /\ UNCHANGED <<testSongId, weights, checks, errorRate, apiDuration, streamTTFB, thrown>>
    /\ UNCHANGED <<upVars, synthVars, runVars, aggVars, parseVars, stageVars, benchVars>>

\* StartupMe ending the iteration when its check fails.
StartupMeFailFast(status) ==
    /\ vuPc = "startup_me"
    /\ trace' = Append(trace, Req("GET", "/api/auth/me", "", status))
    /\ apiDuration' = apiDuration + 1
    /\ checks' = Append(checks, status = 200)
    /\ vuPc' = IF status = 200 THEN "startup_libraries" ELSE "done"
    /\ UNCHANGED <<testSongId, weights, rand, phase, errorRate, streamTTFB, warnings, thrown>>
    /\ UNCHANGED <<upVars, synthVars, runVars, aggVars, parseVars, stageVars, benchVars>>

\* startupPhase, first request: GET /api/auth/me, check 'auth check ok'.
StartupMe(status) ==
    /\ vuPc = "startup_me"
    /\ trace' = Append(trace, Req("GET", "/api/auth/me", "", status))
    /\ apiDuration' = apiDuration + 1
    /\ checks' = Append(checks, status = 200)
    /\ vuPc' = "startup_libraries"
    /\ UNCHANGED <<testSongId, weights, rand, phase, errorRate, streamTTFB, warnings, thrown>>
    /\ UNCHANGED <<upVars, synthVars, runVars, aggVars, parseVars, stageVars, benchVars>>

\* startupPhase, second request: GET /api/libraries.
StartupLibraries(status) ==
    /\ vuPc = "startup_libraries"
    /\ trace' = Append(trace, Req("GET", "/api/libraries", "", status))
    /\ apiDuration' = apiDuration + 1
    /\ checks' = Append(checks, status = 200)
    /\ vuPc' = "startup_playlists"
    /\ UNCHANGED <<testSongId, weights, rand, phase, errorRate, streamTTFB, warnings, thrown>>
    /\ UNCHANGED <<upVars, synthVars, runVars, aggVars, parseVars, stageVars, benchVars>>

\* startupPhase, third request: GET /api/playlists, then sleep(1).
StartupPlaylists(status) ==
    /\ vuPc = "startup_playlists"
    /\ trace' = trace \o <<Req("GET", "/api/playlists", "", status), Sleep(1)>>
    /\ apiDuration' = apiDuration + 1
    /\ checks' = Append(checks, status = 200)
    /\ vuPc' = "done"
    /\ UNCHANGED <<testSongId, weights, rand, phase, errorRate, streamTTFB, warnings, thrown>>
    /\ UNCHANGED <<upVars, synthVars, runVars, aggVars, parseVars, stageVars, benchVars>>

\* listeningPhase, first part: the stream request, its check, the error
\* rate observation and sleep(30).
ListeningStream(status) ==
    /\ vuPc = "listening_stream"
    /\ trace' = trace \o <<Req("GET", "/api/songs/stream", testSongId, status),
                           Sleep(ListeningPause)>>
    /\ streamTTFB' = streamTTFB + 1
    /\ checks' = Append(checks, status = 200 \/ status = 206)
    /\ errorRate' = Append(errorRate, ~(status = 200 \/ status = 206))
    /\ vuPc' = "listening_progress"
    /\ UNCHANGED <<testSongId, weights, rand, phase, apiDuration, warnings, thrown>>
    /\ UNCHANGED <<upVars, synthVars, runVars, aggVars, parseVars, stageVars, benchVars>>

\* listeningPhase, second part: PUT /api/progress and its check.
ListeningProgress(status) ==
    /\ vuPc = "listening_progress"
    /\ trace' = Append(trace, Req("PUT", "/api/progress", testSongId, status))
    /\ apiDuration' = apiDuration + 1
    /\ checks' = Append(checks, status = 200)
    /\ vuPc' = "done"
    /\ UNCHANGED <<testSongId, weights, rand, phase, errorRate, streamTTFB, warnings, thrown>>
    /\ UNCHANGED <<upVars, synthVars, runVars, aggVars, parseVars, stageVars, benchVars>>

\* ManagingCreate going on to the delete whatever the status of the create.
ManagingCreateAlwaysDelete(status, body) ==
    /\ vuPc = "managing_create"
    /\ apiDuration' = apiDuration + 1
    /\ checks' = Append(checks, status = 200 \/ status = 201)
    /\ trace' = trace \o <<Req("POST", "/api/playlists", body.id, status), Sleep(2)>>
    /\ vuPc' = "managing_delete"
    /\ UNCHANGED <<testSongId, weights, rand, phase, errorRate, streamTTFB, warnings, thrown>>
    /\ UNCHANGED <<upVars, synthVars, runVars, aggVars, parseVars, stageVars, benchVars>>

\* managingPhase, first part: the create request and its check. On 200 or
\* 201: createRes.json() (throws on a body that is not JSON), sleep(2) and
\* on to the delete; otherwise sleep(1) and the end of the iteration.
ManagingCreate(status, body) ==
    /\ vuPc = "managing_create"
    /\ apiDuration' = apiDuration + 1
    /\ checks' = Append(checks, status = 200 \/ status = 201)
    /\ IF status = 200 \/ status = 201
         THEN IF body.json
                THEN /\ trace' = trace \o <<Req("POST", "/api/playlists", body.id, status),
                                            Sleep(2)>>
                     /\ vuPc' = "managing_delete"
                     /\ UNCHANGED thrown
                ELSE /\ trace' = Append(trace, Req("POST", "/api/playlists", "", status))
                     /\ vuPc' = "done"
                     /\ thrown' = TRUE
         ELSE /\ trace' = trace \o <<Req("POST", "/api/playlists", "", status), Sleep(1)>>
              /\ vuPc' = "done"
              /\ UNCHANGED thrown
    /\ UNCHANGED <<testSongId, weights, rand, phase, errorRate, streamTTFB, warnings>>
    /\ UNCHANGED <<upVars, synthVars, runVars, aggVars, parseVars, stageVars, benchVars>>

\* managingPhase, second part: the delete request of the created playlist,
\* its check and sleep(1).
ManagingDelete(status) ==
    /\ vuPc = "managing_delete"
    /\ trace' = trace \o <<Req("DELETE", "/api/playlists", trace[Len(trace) - 1].id, status),
                           Sleep(1)>>
    /\ apiDuration' = apiDuration + 1
    /\ checks' = Append(checks, status = 200 \/ status = 204)
    /\ vuPc' = "done"
    /\ UNCHANGED <<testSongId, weights, rand, phase, errorRate, streamTTFB, warnings, thrown>>
    /\ UNCHANGED <<upVars, synthVars, runVars, aggVars, parseVars, stageVars, benchVars>>

\* k6 starts the next iteration of the virtual user.
CapNextIteration ==
    /\ vuPc = "done"
    /\ vuPc' = "iterate"
    /\ rand' = 0
    /\ phase' = "none"
    /\ trace' = <<>>
    /\ checks' = <<>>
    /\ errorRate' = <<>>
    /\ apiDuration' = 0
    /\ streamTTFB' = 0
    /\ warnings' = 0
    /\ thrown' = FALSE
    /\ UNCHANGED <<testSongId, weights>>
    /\ UNCHANGED <<upVars, synthVars, runVars, aggVars, parseVars, stageVars, benchVars>>

\* The behavior objects a k6/config.js may hold: the one of the repository,
\* one whose weights add up to 1.45 and one with a weight of 0.
BehaviorTables ==
    {behavior,
     [startup |-> 50, listening |-> 85, managing |-> 10],
     [startup |-> 0, listening |-> 90, managing |-> 10]}

\* The capacity workload with any of the behavior objects.
CapConfigInit ==
    /\ testSongId \in SongIds
    /\ weights \in BehaviorTables
    /\ vuPc = "iterate"
    /\ rand = 0
    /\ phase = "none"
    /\ trace = <<>>
    /\ checks = <<>>
    /\ errorRate = <<>>
    /\ apiDuration = 0
    /\ streamTTFB = 0
    /\ warnings = 0
    /\ thrown = FALSE

CapNext ==
    \/ \E r \in Draws : Default(r)
    \/ \E s \in HttpStatus : StartupMe(s)
    \/ \E s \in HttpStatus : StartupLibraries(s)
    \/ \E s \in HttpStatus : StartupPlaylists(s)
    \/ \E s \in HttpStatus : ListeningStream(s)
    \/ \E s \in HttpStatus : ListeningProgress(s)
    \/ \E s \in HttpStatus, b \in CreateBodies : ManagingCreate(s, b)
    \/ \E s \in HttpStatus : ManagingDelete(s)
    \/ CapNextIteration

-----------------------------------------------------------------------------
(***************************************************************************)
(* k6/upload.js: the upload workload                                       *)
(***************************************************************************)

\* The configured library id: TEST_LIBRARY_ID set, or the default ''.
LibraryIds == {"", "lib-1"}

\* The iterations of the virtual user are numbered 0 .. MaxIter.
MaxIter == 1

\* The body of the upload response: whether JSON.parse accepts it, and the
\* fields body.success, body.data, body.data.song and body.data.song.id of
\* the parsed value ("" stands for a missing or falsy id).
UploadBodies ==
    {[json |-> FALSE, success |-> FALSE, data |-> FALSE, song |-> FALSE, id |-> ""],
     [json |-> TRUE, success |-> FALSE, data |-> TRUE, song |-> TRUE, id |-> "song-a"],
     [json |-> TRUE, success |-> TRUE, data |-> FALSE, song |-> FALSE, id |-> ""],
     [json |-> TRUE, success |-> TRUE, data |-> TRUE, song |-> FALSE, id |-> ""],
     [json |-> TRUE, success |-> TRUE, data |-> TRUE, song |-> TRUE, id |-> ""],
     [json |-> TRUE, success |-> TRUE, data |-> TRUE, song |-> TRUE, id |-> "song-a"],
     [json |-> TRUE, success |-> TRUE, data |-> TRUE, song |-> TRUE, id |-> "song-b"]}

\* sleep(Math.random() * 2 + 1): 1 to 3 seconds, in whole seconds.
ThinkTimes == {1, 2, 3}

NoResponse == [status |-> -1, body |-> CHOOSE b \in UploadBodies : ~b.json]

UpIdle ==
    /\ testLibraryId = "lib-1"
    /\ upPc = "iterate"
    /\ upIter = 0
    /\ upTrace = <<>>
    /\ upResponse = NoResponse
    /\ songId = ""
    /\ uploadErrors = <<>>
    /\ uploadDuration = 0
    /\ uploadThroughput = 0
    /\ uploadCount = 0
    /\ upConsole = <<>>

UpInit ==
    /\ testLibraryId \in LibraryIds
    /\ upPc = "iterate"
    /\ upIter = 0
    /\ upTrace = <<>>
    /\ upResponse = NoResponse
    /\ songId = ""
    /\ uploadErrors = <<>>
    /\ uploadDuration = 0
    /\ uploadThroughput = 0
    /\ uploadCount = 0
    /\ upConsole = <<>>

\* The predicate 'upload has song id': the id it assigns to songId, or ""
\* when it returns false (also from the catch).
SongIdOf(body) ==
    IF body.json /\ body.success /\ body.data /\ body.song /\ body.id # ""
      THEN body.id
      ELSE ""

\* default(), until the return for a missing library id.
UploadNoLibrary ==
    /\ upPc = "iterate"
    /\ testLibraryId = ""
    /\ upConsole' = Append(upConsole, "TEST_LIBRARY_ID not set! Run seed first.")
    /\ upPc' = "done"
    /\ UNCHANGED <<testLibraryId, upIter, upTrace, upResponse, songId,
                   uploadErrors, uploadDuration, uploadThroughput, uploadCount>>
    /\ UNCHANGED <<capVars, synthVars, runVars, aggVars, parseVars, stageVars, benchVars>>

\* UploadPost with the delete gated on uploadOk instead of songId.
UploadPostDeleteWhenOk(status, body, think) ==
    LET id == SongIdOf(body)
        uploadOk == (status = 200 \/ status = 201) /\ id # ""
        post == Req("POST", "/api/libraries/songs", testLibraryId, status)
    IN  /\ upPc = "iterate"
        /\ testLibraryId # ""
        /\ upResponse' = [status |-> status, body |-> body]
        /\ uploadDuration' = uploadDuration + 1
        /\ uploadThroughput' = uploadThroughput + 1
        /\ uploadCount' = uploadCount + 1
        /\ songId' = id
        /\ uploadErrors' = Append(uploadErrors, ~uploadOk)
        /\ IF uploadOk
             THEN /\ upTrace' = Append(upTrace, post)
                  /\ upPc' = "deleting"
                  /\ UNCHANGED upConsole
             ELSE /\ upTrace' = upTrace \o <<post, Sleep(think)>>
                  /\ upConsole' = Append(upConsole, "Upload failed")
                  /\ upPc' = "done"
        /\ UNCHANGED <<testLibraryId, upIter>>
        /\ UNCHANGED <<capVars, synthVars, runVars, aggVars, parseVars, stageVars, benchVars>>

\* default(), from the upload request to the delete request, or to the end
\* of the iteration when no song id was parsed: the POST, the three metrics,
\* the check with its two predicates, the error rate observation.
UploadPost(status, body, think) ==
    LET id == SongIdOf(body)
        uploadOk == (status = 200 \/ status = 201) /\ id # ""
        post == Req("POST", "/api/libraries/songs", testLibraryId, status)
    IN  /\ upPc = "iterate"
        /\ testLibraryId # ""
        /\ upResponse' = [status |-> status, body |-> body]
        /\ uploadDuration' = uploadDuration + 1
        /\ uploadThroughput' = uploadThroughput + 1
        /\ uploadCount' = uploadCount + 1
        /\ songId' = id
        /\ uploadErrors' = Append(uploadErrors, ~uploadOk)
        /\ IF id # ""
             THEN /\ upTrace' = Append(upTrace, post)
                  /\ upPc' = "deleting"
                  /\ UNCHANGED upConsole
             ELSE /\ upTrace' = upTrace \o <<post, Sleep(think)>>
                  /\ upConsole' = Append(upConsole, "Upload failed")
                  /\ upPc' = "done"
        /\ UNCHANGED <<testLibraryId, upIter>>
        /\ UNCHANGED <<capVars, synthVars, runVars, aggVars, parseVars, stageVars, benchVars>>

\* default(), from the delete request to the end of the iteration.
UploadDelete(status, think) ==
    LET uploadOk == ~uploadErrors[Len(uploadErrors)]
    IN  /\ upPc = "deleting"
        /\ upTrace' = upTrace \o <<Req("DELETE", "/api/songs", songId, status),
                                   Sleep(think)>>
        /\ upConsole' = upConsole
                          \o (IF status # 200 /\ status # 204
                                THEN <<"Delete failed">> ELSE <<>>)
                          \o (IF ~uploadOk THEN <<"Upload failed">> ELSE <<>>)
        /\ upPc' = "done"
        /\ UNCHANGED <<testLibraryId, upIter, upResponse, songId, uploadErrors,
                       uploadDuration, uploadThroughput, uploadCount>>
        /\ UNCHANGED <<capVars, synthVars, runVars, aggVars, parseVars, stageVars, benchVars>>

\* k6 starts the next iteration of the virtual user.
UpNextIteration ==
    /\ upPc = "done"
    /\ upIter < MaxIter
    /\ upPc' = "iterate"
    /\ upIter' = upIter + 1
    /\ upTrace' = <<>>
    /\ upResponse' = NoResponse
    /\ songId' = ""
    /\ upConsole' = <<>>
    /\ uploadErrors' = <<>>
    /\ uploadDuration' = 0
    /\ uploadThroughput' = 0
    /\ uploadCount' = 0
    /\ UNCHANGED testLibraryId
    /\ UNCHANGED <<capVars, synthVars, runVars, aggVars, parseVars, stageVars, benchVars>>

UpNext ==
    \/ UploadNoLibrary
    \/ \E s \in HttpStatus, b \in UploadBodies, t \in ThinkTimes : UploadPost(s, b, t)
    \/ \E s \in HttpStatus, t \in ThinkTimes : UploadDelete(s, t)
    \/ UpNextIteration

-----------------------------------------------------------------------------
(***************************************************************************)
(* k6/upload.js: createUniqueFileData                                      *)
(*                                                                         *)
(* A JavaScript integer below 2^64 is a tuple of four 16-bit words, the    *)
(* most significant first, so that values of 2^31 and more are kept.       *)
(***************************************************************************)

\* const offset = 100.
Offset == 100

\* The number of bytes written: uniqueData[offset] .. uniqueData[offset + 15].
WindowLen == 16

\* The longest modelled base file has Offset + WindowLen + ExtraLen bytes.
ExtraLen == 3

\* The value hi * 2^16 + lo, below 2^32.
U32(hi, lo) == <<0, 0, hi, lo>>

\* The lengths of the base files: shorter than the window's end, exactly to
\* its end, and longer.
BaseLengths == {Offset + 4, Offset + WindowLen, Offset + WindowLen + ExtraLen}

\* The base files: all zero bytes, and a pattern.
BaseFiles ==
    {[i \in 1 .. n |-> 0] : n \in BaseLengths}
      \cup {[i \in 1 .. n |-> (i * 7) % 256] : n \in BaseLengths}

\* __VU: 1, 2 and 2^31.
VUs == {U32(0, 1), U32(0, 2), U32(32768, 0)}

\* __ITER: 1, 2, 2^16 + 1 and 2^32 - 1.
Iters == {U32(0, 1), U32(0, 2), U32(1, 1), U32(65535, 65535)}

\* Date.now(): two instants of 2026, one millisecond apart across a carry
\* of the low 16 bits.
Timestamps == {<<0, 414, 32100, 65535>>, <<0, 414, 32101, 0>>}

NoCall == [vu |-> U32(0, 0), iter |-> U32(0, 0), timestamp |-> U32(0, 0), made |-> FALSE]

SynthIdle ==
    /\ baseFileData = [i \in 1 .. Offset + WindowLen |-> 0]
    /\ lastCall = NoCall
    /\ uniqueData = <<>>
    /\ prevCall = NoCall
    /\ prevData = <<>>

SynthInit ==
    /\ baseFileData \in BaseFiles
    /\ lastCall = NoCall
    /\ uniqueData = <<>>
    /\ prevCall = NoCall
    /\ prevData = <<>>

RECURSIVE Pow2(_)
Pow2(n) == IF n = 0 THEN 1 ELSE 2 * Pow2(n - 1)

\* ToInt32 of the operand of >>: the low 32 bits, as a signed integer.
ToInt32(x) ==
    (IF x[3] >= 32768 THEN x[3] - 65536 ELSE x[3]) * 65536 + x[4]

\* (x >> n) & 0xFF: the shift count is taken modulo 32, the shift keeps the
\* sign, and the mask gives the low 8 bits of the two's complement.
ShiftByte(x, n) == (ToInt32(x) \div Pow2(n % 32)) % 256

\* The sixteen values assigned to uniqueData[offset + k], k = 0 .. 15.
WindowBytes(vu, iter, timestamp) ==
    << ShiftByte(vu, 24), ShiftByte(vu, 16), ShiftByte(vu, 8), ShiftByte(vu, 0),
       ShiftByte(iter, 24), ShiftByte(iter, 16), ShiftByte(iter, 8), ShiftByte(iter, 0),
       ShiftByte(timestamp, 56), ShiftByte(timestamp, 48),
       ShiftByte(timestamp, 40), ShiftByte(timestamp, 32),
       ShiftByte(timestamp, 24), ShiftByte(timestamp, 16),
       ShiftByte(timestamp, 8), ShiftByte(timestamp, 0) >>

\* createUniqueFileData without the four bytes of the iteration number.
CreateUniqueFileDataNoIter(data, vu, iter, timestamp) ==
    LET window == WindowBytes(vu, iter, timestamp)
    IN  [i \in 1 .. Len(data) |->
            IF /\ i - 1 >= Offset
               /\ i - 1 < Offset + WindowLen
               /\ ~(i - 1 - Offset \in 4 .. 7)
              THEN window[i - Offset]
              ELSE data[i]]

\* createUniqueFileData: a copy of the base of the same length, with the
\* window written; an assignment past the end of a Uint8Array is dropped.
\* Index i of the sequence is byte i - 1 of the array.
CreateUniqueFileData(data, vu, iter, timestamp) ==
    LET window == WindowBytes(vu, iter, timestamp)
    IN  [i \in 1 .. Len(data) |->
            IF i - 1 >= Offset /\ i - 1 < Offset + WindowLen
              THEN window[i - Offset]
              ELSE data[i]]

\* One call of createUniqueFileData(vu, iter) at Date.now() = timestamp.
Synthesize(vu, iter, timestamp) ==
    /\ prevCall' = lastCall
    /\ prevData' = uniqueData
    /\ lastCall' = [vu |-> vu, iter |-> iter, timestamp |-> timestamp, made |-> TRUE]
    /\ uniqueData' = CreateUniqueFileData(baseFileData, vu, iter, timestamp)
    /\ UNCHANGED baseFileData
    /\ UNCHANGED <<capVars, upVars, runVars, aggVars, parseVars, stageVars, benchVars>>

SynthNext ==
    \E vu \in VUs, iter \in Iters, t \in Timestamps : Synthesize(vu, iter, t)

-----------------------------------------------------------------------------
(***************************************************************************)
(* The resource sampler: scripts/monitor.cjs, and the copies of its tick   *)
(* in scripts/run-full-test.cjs and scripts/run-upload-test.cjs            *)
(***************************************************************************)

\* setInterval(..., 2000), in seconds.
Interval == 2

\* execSync(..., { timeout: 5000 }), in seconds.
StatsTimeout == 5

\* The modelled time ends MaxTime seconds after the interval was set.
MaxTime == 8

\* One line of the output of `stats --no-stream --format ...`: the container
\* name as its compose project and service, the number of tab-separated
\* parts, the number in the CPU part (-1: none) and the memory part as its
\* numbers, each with the word characters that follow it ('256MiB / 2GiB' is
\* two of them).
StatsLine(project, service, parts, cpu, mem) ==
    [project |-> project, service |-> service, parts |-> parts, cpu |-> cpu,
     mem |-> mem]

\* A number of the memory part and the letters after it.
Mem(value, unit) == [value |-> value, unit |-> unit]

MiB == <<"M", "i", "B">>

GiB == <<"G", "i", "B">>

KiB == <<"K", "i", "B">>

\* What `stats --no-stream` prints: the containers of another project only;
\* the service under test; the service under test and its database, with a
\* line that has no memory part.
StatsOutputs ==
    { << StatsLine("other", "web", 3, 7, <<Mem(100, MiB), Mem(2, GiB)>>) >>,
      << StatsLine("m3w-load-test", "", 3, 40, <<Mem(256, MiB), Mem(2, GiB)>>),
         StatsLine("other", "web", 3, 7, <<Mem(100, MiB), Mem(2, GiB)>>) >>,
      << StatsLine("m3w-load-test", "", 3, 95, <<Mem(1, GiB), Mem(2, GiB)>>),
         StatsLine("m3w-load-test", "postgres", 3, 5,
                   <<Mem(512, KiB), Mem(1, GiB)>>),
         StatsLine("m3w-load-test", "minio", 2, 1, <<>>) >> }

\* How long a stats call that returns output takes: within the second, or
\* longer than the interval.
StatsDurations == {0, Interval + 1}

\* line.includes('m3w-load-test').
IncludesProject(line) == line.project = "m3w-load-test"

\* parts[0].replace('m3w-load-test-', '').replace('m3w-load-test', 'm3w').
ShortName(line) == IF line.service = "" THEN "m3w" ELSE line.service

\* The lower-case letter of a letter of the units.
LowerCaseLetter(c) ==
    CASE c = "G" -> "g"
      [] c = "M" -> "m"
      [] c = "K" -> "k"
      [] c = "I" -> "i"
      [] c = "B" -> "b"
      [] OTHER -> c

\* unit.toLowerCase().
ToLowerCase(unit) == [i \in DOMAIN unit |-> LowerCaseLetter(unit[i])]

\* str.includes(sub).
Includes(str, sub) ==
    \E i \in 1 .. (Len(str) - Len(sub) + 1) :
        SubSeq(str, i, i + Len(sub) - 1) = sub

\* parseMemory(value, unit), in KiB (1/1024 MB) to stay in the integers.
ParseMemory(value, unit) ==
    LET unitLower == ToLowerCase(unit)
    IN  IF Includes(unitLower, <<"g", "i", "b">>)
           \/ Includes(unitLower, <<"g", "b">>) THEN value * 1024 * 1024
        ELSE IF Includes(unitLower, <<"m", "i", "b">>)
                \/ Includes(unitLower, <<"m", "b">>) THEN value * 1024
        ELSE IF Includes(unitLower, <<"k", "i", "b">>)
                \/ Includes(unitLower, <<"k", "b">>) THEN value
        ELSE value * 1024

\* A match that takes the last number of the memory part, the limit.
MemMatchLast(mem) == IF mem = <<>> THEN <<>> ELSE <<mem[Len(mem)]>>

\* parts[2].match(/([\d.]+)(\w+)/): the first number of the memory part
\* with the letters after it, or no match.
MemMatch(mem) == IF mem = <<>> THEN <<>> ELSE <<mem[1]>>

\* The body of the for loop over the lines: containers[name] = { cpu, memMB }
\* for the lines of the project that have three parts.
RECURSIVE ParseOutput(_)
ParseOutput(output) ==
    IF output = <<>> THEN <<>>
    ELSE LET before == ParseOutput(SubSeq(output, 1, Len(output) - 1))
             line == output[Len(output)]
             memMatch == MemMatch(line.mem)
             entry == [cpu |-> IF line.cpu < 0 THEN 0 ELSE line.cpu,
                       memMB |-> IF memMatch = <<>> THEN 0
                                 ELSE ParseMemory(memMatch[1].value,
                                                  memMatch[1].unit)]
         IN  IF ~IncludesProject(line) \/ line.parts < 3
               THEN before
               ELSE [c \in DOMAIN before \cup {ShortName(line)} |->
                        IF c = ShortName(line) THEN entry ELSE before[c]]

\* The tick after execSync returned `output` at time t: the buffer with the
\* sample pushed, when the output has a container of the project.
PushSample(buffer, output, t) ==
    IF DOMAIN ParseOutput(output) # {}
      THEN Append(buffer, [timestamp |-> t, containers |-> ParseOutput(output)])
      ELSE buffer

\* stats[name] = { cpuSamples, memSamples }: the values of each container,
\* in the order of the samples.
RECURSIVE StatsOf(_)
StatsOf(buffer) ==
    IF buffer = <<>> THEN <<>>
    ELSE LET before == StatsOf(SubSeq(buffer, 1, Len(buffer) - 1))
             cs == buffer[Len(buffer)].containers
             Old(c) == IF c \in DOMAIN before
                         THEN before[c]
                         ELSE [cpuSamples |-> <<>>, memSamples |-> <<>>]
         IN  [c \in DOMAIN before \cup DOMAIN cs |->
                IF c \in DOMAIN cs
                  THEN [cpuSamples |-> Append(Old(c).cpuSamples, cs[c].cpu),
                        memSamples |-> Append(Old(c).memSamples, cs[c].memMB)]
                  ELSE before[c]]

RECURSIVE Sum(_)
Sum(arr) == IF arr = <<>> THEN 0 ELSE arr[1] + Sum(Tail(arr))

\* average(arr): the quotient as the pair <<sum, length>>; 0 for [].
Average(arr) == IF Len(arr) > 0 THEN <<Sum(arr), Len(arr)>> ELSE <<0, 1>>

\* Math.max(...arr) of a non-empty array.
Max(arr) == CHOOSE m \in {arr[i] : i \in DOMAIN arr} :
                \A i \in DOMAIN arr : arr[i] <= m

\* [...arr].sort((a, b) => a - b).
Sorted(arr) == SortSeq(arr, LAMBDA a, b : a < b)

\* percentile(sortedArr, p): sortedArr[max(0, ceil(p / 100 * length) - 1)].
Percentile(sortedArr, p) ==
    IF Len(sortedArr) = 0 THEN 0
    ELSE LET ceil == (p * Len(sortedArr) + 99) \div 100
             index == ceil - 1
         IN  sortedArr[(IF index > 0 THEN index ELSE 0) + 1]

\* The avg, max and p95 of one series (the runners print avg and max only).
Aggregate(arr) ==
    [avg |-> Average(arr), max |-> Max(arr), p95 |-> Percentile(Sorted(arr), 95)]

\* The summary computed when the sampler is stopped with a non-empty buffer.
Summarize(buffer) ==
    [produced |-> TRUE,
     duration |-> buffer[Len(buffer)].timestamp,
     sampleCount |-> Len(buffer),
     stats |-> StatsOf(buffer),
     containers |-> [c \in DOMAIN StatsOf(buffer) |->
                        [cpu |-> Aggregate(StatsOf(buffer)[c].cpuSamples),
                         memoryMB |-> Aggregate(StatsOf(buffer)[c].memSamples)]]]

\* The summary of the runners with an empty buffer: '(no samples collected)'.
EmptySummary ==
    [produced |-> TRUE, duration |-> 0, sampleCount |-> 0, stats |-> <<>>,
     containers |-> <<>>]

NoSummary ==
    [produced |-> FALSE, duration |-> 0, sampleCount |-> 0, stats |-> <<>>,
     containers |-> <<>>]

\* clearInterval that leaves the timer running.
ClearIntervalForgotten(t) == t

\* clearInterval(interval): the state of the timer after it.
ClearInterval(t) == "cleared"

Programs == {"monitor", "full", "upload"}

Runners == {"full", "upload"}

\* The exit codes of k6: 0, and 99 (a threshold was crossed).
K6ExitCodes == {0, 99}

tickVars == <<now, due, inFlight, callStart, callDue, prevStart, prevEnd,
              statsCalls, statsFailed, samples>>

flagVars == <<prog, keep, skipK6>>

outVars == <<summary, fileWritten, pidFile>>

k6Vars == <<healthy, attempts, pauses, k6Phase, setupStatus>>

composeVars == <<composeUps, composeDowns>>

\* The run group in the specifications of the other programs.
RunIdle ==
    /\ prog = "monitor" /\ keep = FALSE /\ skipK6 = FALSE
    /\ pc = "start" /\ exitCode = 0 /\ k6Started = FALSE /\ composeUps = 0
    /\ composeDowns = 0
    /\ timer = "none" /\ stopCalled = FALSE
    /\ now = 0 /\ due = 0 /\ inFlight = 0
    /\ callStart = 0 /\ callDue = 0 /\ prevStart = 0 /\ prevEnd = -1
    /\ statsCalls = 0 /\ statsFailed = 0
    /\ samples = <<>> /\ summary = NoSummary
    /\ fileWritten = FALSE /\ pidFile = FALSE
    /\ healthy = FALSE /\ attempts = 0 /\ pauses = 0
    /\ k6Phase = "none" /\ setupStatus = <<>>

\* A program is started: the flags of its command line, `let exitCode = 0`,
\* `const samples = []`.
RunInit ==
    /\ prog \in Programs
    /\ keep \in (IF prog \in Runners THEN BOOLEAN ELSE {FALSE})
    /\ skipK6 \in (IF prog = "full" THEN BOOLEAN ELSE {FALSE})
    /\ pc = "start" /\ exitCode = 0 /\ k6Started = FALSE /\ composeUps = 0
    /\ composeDowns = 0
    /\ timer = "none" /\ stopCalled = FALSE
    /\ now = 0 /\ due = 0 /\ inFlight = 0
    /\ callStart = 0 /\ callDue = 0 /\ prevStart = 0 /\ prevEnd = -1
    /\ statsCalls = 0 /\ statsFailed = 0
    /\ samples = <<>> /\ summary = NoSummary
    /\ fileWritten = FALSE /\ pidFile = FALSE
    /\ healthy = FALSE /\ attempts = 0 /\ pauses = 0
    /\ k6Phase = "none" /\ setupStatus = <<>>

\* The process is alive and its thread is not inside execSync.
Ready == pc # "exited" /\ inFlight = 0

\* The interval fires: the callback calls execSync, which blocks the thread.
TickStart ==
    /\ Ready
    /\ timer = "active"
    /\ now >= due
    /\ now < MaxTime
    /\ inFlight' = inFlight + 1
    /\ callStart' = now
    /\ callDue' = due
    /\ statsCalls' = statsCalls + 1
    /\ UNCHANGED <<now, due, prevStart, prevEnd, statsFailed, samples>>
    /\ UNCHANGED <<flagVars, outVars, pc, exitCode, k6Started, composeVars,
                   timer, stopCalled>>
    /\ UNCHANGED <<k6Vars, capVars, upVars, synthVars, aggVars, parseVars, stageVars, benchVars>>

\* execSync throws and nothing catches it: the process dies.
TickReturnUncaught(threw, output, dur) ==
    /\ inFlight = 1
    /\ inFlight' = 0
    /\ now' = callStart + dur
    /\ due' = callStart + Interval
    /\ prevStart' = callStart
    /\ prevEnd' = now'
    /\ IF threw
         THEN /\ statsFailed' = statsFailed + 1
              /\ pc' = "exited"
              /\ exitCode' = 1
              /\ UNCHANGED samples
         ELSE /\ samples' = PushSample(samples, output, now')
              /\ UNCHANGED <<statsFailed, pc, exitCode>>
    /\ UNCHANGED <<callStart, callDue, statsCalls>>
    /\ UNCHANGED <<flagVars, outVars, k6Started, composeVars, timer,
                   stopCalled>>
    /\ UNCHANGED <<k6Vars, capVars, upVars, synthVars, aggVars, parseVars, stageVars, benchVars>>

\* execSync returns `output` or throws (non-zero exit, or the timeout) `dur`
\* seconds after the call: the rest of the callback, and the timer armed
\* again, Interval after the time the callback was started at.
TickReturn(threw, output, dur) ==
    /\ inFlight = 1
    /\ inFlight' = 0
    /\ now' = callStart + dur
    /\ due' = callStart + Interval
    /\ prevStart' = callStart
    /\ prevEnd' = now'
    /\ IF threw
         THEN /\ statsFailed' = statsFailed + 1
              /\ UNCHANGED samples
         ELSE /\ samples' = PushSample(samples, output, now')
              /\ UNCHANGED statsFailed
    /\ UNCHANGED <<callStart, callDue, statsCalls>>
    /\ UNCHANGED <<flagVars, outVars, pc, exitCode, k6Started, composeVars,
                   timer, stopCalled>>
    /\ UNCHANGED <<k6Vars, capVars, upVars, synthVars, aggVars, parseVars, stageVars, benchVars>>

\* A second passes while the event loop has nothing to run.
TimePasses ==
    /\ Ready
    /\ timer = "active"
    /\ now < due
    /\ now < MaxTime
    /\ now' = now + 1
    /\ UNCHANGED <<due, inFlight, callStart, callDue, prevStart, prevEnd,
                   statsCalls, statsFailed, samples>>
    /\ UNCHANGED <<flagVars, outVars, pc, exitCode, k6Started, composeVars,
                   timer, stopCalled>>
    /\ UNCHANGED <<k6Vars, capVars, upVars, synthVars, aggVars, parseVars, stageVars, benchVars>>

\* monitor(): detectRuntime, setInterval, the PID file, the signal handlers.
MonitorStart(runtime) ==
    /\ prog = "monitor"
    /\ pc = "start"
    /\ IF runtime
         THEN /\ timer' = "active"
              /\ due' = now + Interval
              /\ pidFile' = TRUE
              /\ pc' = "running"
              /\ UNCHANGED exitCode
         ELSE /\ pc' = "exited"
              /\ exitCode' = 1
              /\ UNCHANGED <<timer, due, pidFile>>
    /\ UNCHANGED <<now, inFlight, callStart, callDue, prevStart, prevEnd,
                   statsCalls, statsFailed, samples>>
    /\ UNCHANGED <<flagVars, summary, fileWritten, k6Started, composeVars,
                   stopCalled>>
    /\ UNCHANGED <<k6Vars, capVars, upVars, synthVars, aggVars, parseVars, stageVars, benchVars>>

\* shutdown(), on SIGINT or SIGTERM.
Shutdown ==
    /\ prog = "monitor"
    /\ pc = "running"
    /\ Ready
    /\ timer' = ClearInterval(timer)
    /\ stopCalled' = TRUE
    /\ IF Len(samples) = 0
         THEN UNCHANGED <<summary, fileWritten, pidFile>>
         ELSE /\ summary' = Summarize(samples)
              /\ fileWritten' = TRUE
              /\ pidFile' = FALSE
    /\ pc' = "exited"
    /\ exitCode' = 0
    /\ UNCHANGED tickVars
    /\ UNCHANGED <<flagVars, k6Started, composeVars>>
    /\ UNCHANGED <<k6Vars, capVars, upVars, synthVars, aggVars, parseVars, stageVars, benchVars>>

\* What a step of main() leaves alone when it only moves to the next await.
StepOnly ==
    /\ UNCHANGED tickVars
    /\ UNCHANGED <<flagVars, outVars, k6Started, timer, stopCalled>>
    /\ UNCHANGED <<k6Vars, capVars, upVars, synthVars, aggVars, parseVars, stageVars, benchVars>>

\* The finally block is entered: it awaits compose down unless --keep, and
\* process.exit(exitCode) follows it.
EnterFinally == pc' = IF keep THEN "exited" ELSE "composeDown"

\* A catch that exits at once, without a finally block.
CatchExits == exitCode' = 1 /\ pc' = "exited"

\* An await of the try block rejects: catch, then finally.
Catch == exitCode' = 1 /\ EnterFinally

\* main(), step 0: detectRuntime.
RunnerStart(runtime) ==
    /\ prog \in Runners
    /\ pc = "start"
    /\ IF runtime
         THEN pc' = "composeUp" /\ UNCHANGED exitCode
         ELSE pc' = "exited" /\ exitCode' = 1
    /\ UNCHANGED composeVars
    /\ StepOnly

\* await run(compose, ['up', '-d']).
ComposeUp(ok) ==
    /\ prog \in Runners
    /\ pc = "composeUp"
    /\ Ready
    /\ IF ok THEN pc' = "waitForHealth" /\ UNCHANGED exitCode ELSE Catch
    /\ composeUps' = composeUps + 1
    /\ UNCHANGED composeDowns
    /\ StepOnly

\* waitForHealth(url, maxAttempts = 60, ...).
maxAttempts == 60

\* A failed attempt whose pause is skipped when it was the last one.
AttemptFailedNoLastPause ==
    /\ attempts' = attempts + 1
    /\ pauses' = IF attempts + 1 < maxAttempts THEN pauses + 1 ELSE pauses

\* The end of the body of the loop after an error or a response that is not
\* ok: process.stdout.write('.'), the pause of `interval`, then i++.
AttemptFailed ==
    /\ attempts' = attempts + 1
    /\ pauses' = pauses + 1

\* waitForHealth that returns false after the last attempt.
WaitForHealthGivesUp(ok) ==
    /\ prog \in Runners
    /\ pc = "waitForHealth"
    /\ Ready
    /\ IF ok
         THEN /\ healthy' = TRUE
              /\ pc' = "seed"
              /\ attempts' = 0
              /\ pauses' = 0
              /\ UNCHANGED exitCode
         ELSE /\ AttemptFailed
              /\ pc' = IF attempts' < maxAttempts THEN pc ELSE "seed"
              /\ UNCHANGED <<healthy, exitCode>>
    /\ UNCHANGED <<composeVars, k6Phase, setupStatus>>
    /\ UNCHANGED tickVars
    /\ UNCHANGED <<flagVars, outVars, k6Started, timer, stopCalled>>
    /\ UNCHANGED <<capVars, upVars, synthVars, aggVars, parseVars, stageVars, benchVars>>

\* await waitForHealth(...): one attempt of its loop, `ok` when fetch gave a
\* response with response.ok; the throw after the last attempt; on return,
\* the wait for the migrations.
WaitForHealth(ok) ==
    /\ prog \in Runners
    /\ pc = "waitForHealth"
    /\ Ready
    /\ IF ok
         THEN /\ healthy' = TRUE
              /\ pc' = "seed"
              /\ attempts' = 0
              /\ pauses' = 0
              /\ UNCHANGED exitCode
         ELSE /\ AttemptFailed
              /\ IF attempts' < maxAttempts
                   THEN UNCHANGED <<pc, exitCode>>
                   ELSE Catch
              /\ UNCHANGED healthy
    /\ UNCHANGED <<composeVars, k6Phase, setupStatus>>
    /\ UNCHANGED tickVars
    /\ UNCHANGED <<flagVars, outVars, k6Started, timer, stopCalled>>
    /\ UNCHANGED <<capVars, upVars, synthVars, aggVars, parseVars, stageVars, benchVars>>

\* await run('node', ['scripts/seed.cjs']).
Seed(ok) ==
    /\ prog \in Runners
    /\ pc = "seed"
    /\ Ready
    /\ IF ok
         THEN /\ pc' = IF prog = "upload" THEN "dbClear" ELSE "k6"
              /\ UNCHANGED exitCode
         ELSE Catch
    /\ UNCHANGED composeVars
    /\ StepOnly

\* Step 3.5 of the upload runner: a failure is caught and warned about.
DbClear(ok) ==
    /\ prog = "upload"
    /\ pc = "dbClear"
    /\ Ready
    /\ pc' = "generateFiles"
    /\ UNCHANGED <<exitCode, composeVars>>
    /\ StepOnly

\* await run('node', ['scripts/generate-upload-files.cjs', ...]).
GenerateFiles(ok) ==
    /\ prog = "upload"
    /\ pc = "generateFiles"
    /\ Ready
    /\ IF ok THEN pc' = "k6" /\ UNCHANGED exitCode ELSE Catch
    /\ UNCHANGED composeVars
    /\ StepOnly

\* The k6 step up to `await run(k6Cmd, ...)`: findK6, setInterval, run.
StartK6(k6Cmd) ==
    /\ prog \in Runners
    /\ pc = "k6"
    /\ Ready
    /\ IF prog = "full" /\ (skipK6 \/ ~k6Cmd)
         THEN /\ pc' = "cleanup"
              /\ UNCHANGED <<exitCode, timer, due, k6Started, k6Phase>>
         ELSE IF ~k6Cmd
           THEN /\ Catch
                /\ UNCHANGED <<timer, due, k6Started, k6Phase>>
           ELSE /\ timer' = "active"
                /\ due' = now + Interval
                /\ k6Started' = TRUE
                /\ k6Phase' = "setup"
                /\ pc' = "k6Running"
                /\ UNCHANGED exitCode
    /\ UNCHANGED <<now, inFlight, callStart, callDue, prevStart, prevEnd,
                   statsCalls, statsFailed, samples>>
    /\ UNCHANGED <<flagVars, outVars, composeVars, stopCalled>>
    /\ UNCHANGED <<healthy, attempts, pauses, setupStatus>>
    /\ UNCHANGED <<capVars, upVars, synthVars, aggVars, parseVars, stageVars, benchVars>>

\* The statuses the requests of setup() get.
SetupStatuses == {0, 200, 503}

\* setup() of the k6 script, run once before any iteration: GET /health in
\* k6/capacity.js, GET /api/auth/me and GET /api/libraries/:id in
\* k6/upload.js; it throws on a status other than 200.
K6Setup(first, second) ==
    /\ pc = "k6Running"
    /\ k6Phase = "setup"
    /\ setupStatus' = IF prog = "full" \/ first # 200
                        THEN <<first>> ELSE <<first, second>>
    /\ k6Phase' = IF \A i \in DOMAIN setupStatus' : setupStatus'[i] = 200
                    THEN "iterating" ELSE "aborted"
    /\ UNCHANGED <<healthy, attempts, pauses>>
    /\ UNCHANGED tickVars
    /\ UNCHANGED <<flagVars, outVars, pc, exitCode, k6Started, composeVars,
                   timer, stopCalled>>
    /\ UNCHANGED <<capVars, upVars, synthVars, aggVars, parseVars, stageVars, benchVars>>

\* k6 exits with `code`, not 0 unless setup() returned: run() resolves for
\* 0 (clearInterval, the summary, the raw data) and rejects for any other
\* code.
K6Exit(code) ==
    /\ prog \in Runners
    /\ pc = "k6Running"
    /\ Ready
    /\ code = 0 => k6Phase = "iterating"
    /\ IF code = 0
         THEN /\ timer' = ClearInterval(timer)
              /\ stopCalled' = TRUE
              /\ summary' = IF Len(samples) = 0 THEN EmptySummary
                            ELSE Summarize(samples)
              /\ fileWritten' = (Len(samples) # 0)
              /\ pc' = "cleanup"
              /\ UNCHANGED exitCode
         ELSE /\ Catch
              /\ UNCHANGED <<timer, stopCalled, summary, fileWritten>>
    /\ UNCHANGED tickVars
    /\ UNCHANGED <<flagVars, pidFile, k6Started, composeVars>>
    /\ UNCHANGED <<k6Vars, capVars, upVars, synthVars, aggVars, parseVars, stageVars, benchVars>>

\* await run('node', ['scripts/cleanup.cjs', '--full']).
Cleanup(ok) ==
    /\ prog \in Runners
    /\ pc = "cleanup"
    /\ Ready
    /\ IF ok THEN EnterFinally /\ UNCHANGED exitCode ELSE Catch
    /\ UNCHANGED composeVars
    /\ StepOnly

\* await run(compose, ['down', '-v']) of the finally block, its failure
\* caught, and process.exit(exitCode).
ComposeDown(ok) ==
    /\ prog \in Runners
    /\ pc = "composeDown"
    /\ Ready
    /\ composeDowns' = composeDowns + 1
    /\ UNCHANGED composeUps
    /\ pc' = "exited"
    /\ UNCHANGED exitCode
    /\ StepOnly

RunNext ==
    \/ TickStart
    \/ \E output \in StatsOutputs, dur \in StatsDurations :
          TickReturn(FALSE, output, dur)
    \/ \E dur \in {0, StatsTimeout} : TickReturn(TRUE, <<>>, dur)
    \/ TimePasses
    \/ \E runtime \in BOOLEAN : MonitorStart(runtime)
    \/ Shutdown
    \/ \E runtime \in BOOLEAN : RunnerStart(runtime)
    \/ \E ok \in BOOLEAN : ComposeUp(ok)
    \/ \E ok \in BOOLEAN : WaitForHealth(ok)
    \/ \E ok \in BOOLEAN : Seed(ok)
    \/ \E ok \in BOOLEAN : DbClear(ok)
    \/ \E ok \in BOOLEAN : GenerateFiles(ok)
    \/ \E k6Cmd \in BOOLEAN : StartK6(k6Cmd)
    \/ \E first \in SetupStatuses, second \in SetupStatuses :
          K6Setup(first, second)
    \/ \E code \in K6ExitCodes : K6Exit(code)
    \/ \E ok \in BOOLEAN : Cleanup(ok)
    \/ \E ok \in BOOLEAN : ComposeDown(ok)

-----------------------------------------------------------------------------
(***************************************************************************)
(* The numbers of the summary: JavaScript numbers are IEEE 754 doubles.    *)
(* A positive double is the exponent e of its leading bit and its 53       *)
(* significand bits m, most significant first (the value is                *)
(* m * 2^(e - 52)); zero has no bits.  Sums and quotients are rounded to   *)
(* nearest, ties to even, as the + and / of the language are.              *)
(***************************************************************************)

\* The number of significand bits of a double.
Precision == 53

DZero == [e |-> 0, m |-> <<>>]

\* Infinity, the quotient of a positive number and 0.
DInfinity == [e |-> 1024, m |-> <<>>]

\* k zero bits.
Zeros(k) == [i \in 1 .. k |-> 0]

\* The bit string without its leading zeros.
StripZeros(bits) ==
    IF \A i \in DOMAIN bits : bits[i] = 0 THEN <<>>
    ELSE LET first == CHOOSE i \in DOMAIN bits :
                         bits[i] = 1 /\ \A j \in 1 .. (i - 1) : bits[j] = 0
         IN  SubSeq(bits, first, Len(bits))

\* The binary digits of a natural number, most significant first.
RECURSIVE BitsOfNat(_)
BitsOfNat(n) == IF n = 0 THEN <<>> ELSE Append(BitsOfNat(n \div 2), n % 2)

\* The 16 binary digits of a 16 bit word.
WordBits(w) == [i \in 1 .. 16 |-> (w \div (2 ^ (16 - i))) % 2]

\* x + y + carry for two bit strings of the same length; one bit longer.
\* The lower half is added first and its carry goes into the upper half.
RECURSIVE AddBits(_, _, _)
AddBits(x, y, carry) ==
    IF Len(x) = 0 THEN <<carry>>
    ELSE IF Len(x) = 1
      THEN <<(x[1] + y[1] + carry) \div 2, (x[1] + y[1] + carry) % 2>>
    ELSE LET n == Len(x)
             h == n \div 2
             lo == AddBits(SubSeq(x, h + 1, n), SubSeq(y, h + 1, n), carry)
             hi == IF lo[1] = 1
                     THEN AddBits(SubSeq(x, 1, h), SubSeq(y, 1, h), 1)
                     ELSE AddBits(SubSeq(x, 1, h), SubSeq(y, 1, h), 0)
         IN  hi \o Tail(lo)

\* The double nearest to bits * 2^w, for a bit string with a leading 1 and
\* `sticky` when the exact value is a little more than the bit string.
RoundToDouble(bits, w, sticky) ==
    LET n == Len(bits)
    IN  IF n <= Precision
          THEN [e |-> w + n - 1, m |-> bits \o Zeros(Precision - n)]
          ELSE LET top == SubSeq(bits, 1, Precision)
                   guard == bits[Precision + 1]
                   rest == \/ sticky
                           \/ \E i \in (Precision + 2) .. n : bits[i] = 1
                   up == guard = 1 /\ (rest \/ top[Precision] = 1)
                   inc == AddBits(top, Zeros(Precision), 1)
               IN  IF ~up THEN [e |-> w + n - 1, m |-> top]
                   ELSE IF inc[1] = 1
                     THEN [e |-> w + n, m |-> SubSeq(inc, 1, Precision)]
                     ELSE [e |-> w + n - 1, m |-> Tail(inc)]

\* The double of a natural number below 2^31.
D(n) == IF n = 0 THEN DZero ELSE RoundToDouble(BitsOfNat(n), 0, FALSE)

\* The double with exponent e and the 52 fraction bits given as a 4 bit and
\* three 16 bit words, as in its hexadecimal form.
DFromWords(e, f) ==
    [e |-> e,
     m |-> <<1>> \o SubSeq(WordBits(f[1]), 13, 16) \o WordBits(f[2])
               \o WordBits(f[3]) \o WordBits(f[4])]

\* a + b.
DAdd(a, b) ==
    IF a = DZero THEN b
    ELSE IF b = DZero THEN a
    ELSE LET hi == IF a.e >= b.e THEN a ELSE b
             lo == IF a.e >= b.e THEN b ELSE a
             d == hi.e - lo.e
             x == <<0>> \o hi.m \o Zeros(d)
             y == Zeros(d + 1) \o lo.m
             s == StripZeros(AddBits(x, y, 0))
         IN  RoundToDouble(s, lo.e - (Precision - 1), FALSE)

\* The complement of a bit string.
NotBits(x) == [i \in 1 .. Len(x) |-> 1 - x[i]]

\* x < y for two bit strings of the same length.
BitsLess(x, y) ==
    \E i \in DOMAIN x : x[i] < y[i] /\ \A j \in 1 .. (i - 1) : x[j] = y[j]

\* The quotient bits and the remainder of the long division of a bit string
\* that follows a remainder r0 by the divisor n; r0 and n are bit strings
\* of the same length, two bits longer than a significand, and r0 < n.
\* The upper half is divided first and its remainder goes on into the lower
\* half.
RECURSIVE DivBits(_, _, _)
DivBits(bits, n, r0) ==
    IF Len(bits) = 0 THEN [q |-> <<>>, r |-> r0]
    ELSE IF Len(bits) = 1
      THEN LET t == Tail(r0) \o bits
           IN  IF BitsLess(t, n)
                 THEN [q |-> <<0>>, r |-> t]
                 ELSE [q |-> <<1>>, r |-> Tail(AddBits(t, NotBits(n), 1))]
    ELSE LET h == Len(bits) \div 2
             hi == DivBits(SubSeq(bits, 1, h), n, r0)
             lo == CHOOSE d \in {DivBits(SubSeq(bits, h + 1, Len(bits)), n, r) :
                                   r \in {hi.r}} : TRUE
         IN  [q |-> hi.q \o lo.q, r |-> lo.r]

\* a / b for a double a and a positive double or zero b.
DDiv(a, b) ==
    IF b = DZero THEN DInfinity
    ELSE IF a = DZero THEN DZero
    ELSE LET extra == Precision + 2
             dv == DivBits(a.m \o Zeros(extra), <<0, 0>> \o b.m,
                           Zeros(Precision + 2))
         IN  RoundToDouble(StripZeros(dv.q), a.e - b.e - extra,
                           \E i \in DOMAIN dv.r : dv.r[i] = 1)

\* The product of a bit string and a natural number, as a bit string.
RECURSIVE MulBits(_, _)
MulBits(bits, n) ==
    IF n = 0 THEN <<>>
    ELSE LET add == IF n % 2 = 1 THEN bits ELSE <<>>
             Plus(twice) ==
                 LET w == IF Len(twice) > Len(add) THEN Len(twice) ELSE Len(add)
                 IN  StripZeros(AddBits(Zeros(w - Len(twice)) \o twice,
                                        Zeros(w - Len(add)) \o add, 0))
         IN  CHOOSE p \in {Plus(half \o <<0>>) :
                              half \in {MulBits(bits, n \div 2)}} : TRUE

\* n * a for a natural number n and a double a.
DMul(n, a) ==
    IF a = DInfinity THEN DInfinity
    ELSE IF a = DZero \/ n = 0 THEN DZero
    ELSE RoundToDouble(MulBits(a.m, n), a.e - (Precision - 1), FALSE)

\* Math.floor(a).
DFloor(a) ==
    IF a = DInfinity \/ a = DZero THEN a
    ELSE IF a.e < 0 THEN DZero
    ELSE [e |-> a.e,
          m |-> [i \in 1 .. Precision |-> IF i <= a.e + 1 THEN a.m[i] ELSE 0]]

\* The natural number of a bit string of at most 31 bits.
RECURSIVE BitsToNat(_)
BitsToNat(bits) ==
    IF Len(bits) = 0 THEN 0
    ELSE IF Len(bits) = 1 THEN bits[1]
    ELSE LET h == Len(bits) \div 2
         IN  BitsToNat(SubSeq(bits, 1, h)) * (2 ^ (Len(bits) - h))
               + BitsToNat(SubSeq(bits, h + 1, Len(bits)))

\* Math.ceil(a) of a double below 2^31, as a natural number.
DCeil(a) ==
    IF a = DZero THEN 0
    ELSE IF a.e < 0 THEN 1
    ELSE BitsToNat(SubSeq(a.m, 1, a.e + 1))
           + (IF \E i \in (a.e + 2) .. Precision : a.m[i] = 1 THEN 1 ELSE 0)

\* a < b.
DLess(a, b) ==
    IF b = DZero THEN FALSE
    ELSE IF a = DZero THEN TRUE
    ELSE a.e < b.e \/ (a.e = b.e /\ BitsLess(a.m, b.m))

-----------------------------------------------------------------------------
(***************************************************************************)
(* The summary of one container and the capacity estimate:                 *)
(* scripts/monitor.cjs shutdown(), average(), percentile(), and the        *)
(* capacity estimate of scripts/run-full-test.cjs                          *)
(***************************************************************************)

\* The longest series built from SampleValues.
MaxSeries == 2

\* parseFloat('0.10'), parseFloat('0.20'), parseFloat('0.30').
Tenth == DFromWords(-4, <<9, 39321, 39321, 39322>>)

TwoTenths == DFromWords(-3, <<9, 39321, 39321, 39322>>)

ThreeTenths == DFromWords(-2, <<3, 13107, 13107, 13107>>)

\* The doubles of a sequence of natural numbers.
DSeq(ns) == [i \in 1 .. Len(ns) |-> D(ns[i])]

\* The values of the enumerated series.
SampleValues == {DZero, D(40)}

\* The enumerated series of CPU percentages: none and the short ones.
ShortSeries == UNION {[1 .. n -> SampleValues] : n \in 0 .. MaxSeries}

\* Series with five, four, three and twenty samples.
LongSeries ==
    {DSeq(<<100, 10, 30, 20, 40>>), DSeq(<<4, 2, 3, 1>>),
     <<Tenth, TwoTenths, ThreeTenths>>, [i \in 1 .. 20 |-> D(21 - i)]}

\* The samples that change places: those of the indexes 1 .. MaxSwap + 1.
MaxSwap == 2

\* The memory values (MB) of the samples: every sample of a run has the
\* same one.
MemoryValues == {DZero, D(256)}

\* const memLimit = 2048.
memLimit == 2048

\* 'At 100 VUs' of the monitor, 'At 500 VUs' of the full runner.
AtVUs(p) == IF p = "monitor" THEN 100 ELSE 500

\* The concurrency k6 ran with while the samples were taken.
Concurrencies == {20, 100}

NoAggregate == [computed |-> FALSE]

NoEstimate == [reported |-> FALSE]

NoResult == [returned |-> FALSE]

AggIdle ==
    /\ aggProg = "monitor" /\ observedVUs = 0
    /\ cpuSamples = <<>> /\ memSamples = <<>>
    /\ aggregate = NoAggregate /\ estimate = NoEstimate /\ pResult = NoResult

AggInit ==
    /\ aggProg \in {"monitor", "full"}
    /\ observedVUs \in Concurrencies
    /\ \/ /\ cpuSamples \in ShortSeries
          /\ \E v \in MemoryValues :
                memSamples = [i \in DOMAIN cpuSamples |-> v]
       \/ /\ cpuSamples \in LongSeries
          /\ memSamples = [i \in DOMAIN cpuSamples |-> D(256)]
    /\ aggregate = NoAggregate /\ estimate = NoEstimate /\ pResult = NoResult

\* arr.reduce((a, b) => a + b, 0).
RECURSIVE DSum(_)
DSum(arr) ==
    IF Len(arr) = 0 THEN DZero
    ELSE DAdd(DSum(SubSeq(arr, 1, Len(arr) - 1)), arr[Len(arr)])

\* average(arr).
DAverage(arr) ==
    IF Len(arr) > 0 THEN DDiv(DSum(arr), D(Len(arr))) ELSE DZero

\* Math.max(...arr) of a non-empty array.
DMax(arr) == CHOOSE m \in {arr[i] : i \in DOMAIN arr} :
                 \A i \in DOMAIN arr : ~DLess(m, arr[i])

\* [...arr].sort((a, b) => a - b): a sorted copy.
DSorted(arr) == SortSeq(arr, DLess)

\* p / 100 for p = 95.
NinetyFiveHundredths == DDiv(D(95), D(100))

\* p / 100.
Hundredths(p) == IF p = 95 THEN NinetyFiveHundredths ELSE DDiv(D(p), D(100))

\* percentile with Math.floor in the place of Math.ceil.
DPercentileFloor(sortedArr, p) ==
    IF Len(sortedArr) = 0 THEN DZero
    ELSE LET index == DCeil(DFloor(DMul(Len(sortedArr), Hundredths(p)))) - 1
         IN  sortedArr[(IF index > 0 THEN index ELSE 0) + 1]

\* percentile(sortedArr, p).
DPercentile(sortedArr, p) ==
    IF Len(sortedArr) = 0 THEN DZero
    ELSE LET index == DCeil(DMul(Len(sortedArr), Hundredths(p))) - 1
         IN  sortedArr[(IF index > 0 THEN index ELSE 0) + 1]

\* summary.containers[name].cpu or .memoryMB of the monitor.
DAggregate(arr) ==
    [avg |-> DAverage(arr), max |-> DMax(arr),
     p95 |-> DPercentile(DSorted(arr), 95)]

\* cpuAvg and cpuMax, or memAvg and memMax, of the full runner.
RunnerAggregate(arr) ==
    [avg |-> DDiv(DSum(arr), D(Len(arr))), max |-> DMax(arr)]

\* One line of the capacity estimate: the number printed after '~'.
Line(value) == [printed |-> TRUE, value |-> value]

\* A line that is not printed.
Omitted == [printed |-> FALSE, value |-> DZero]

\* The capacity estimate from the maxima of the m3w container: the monitor
\* divides without a guard; the full runner prints a line only for a
\* maximum above 0.
CapacityEstimate(p, cpuMax, memMax) ==
    IF p = "monitor"
      THEN [reported |-> TRUE,
            cpu |-> Line(DFloor(DMul(AtVUs(p), DDiv(D(100), cpuMax)))),
            memory |-> Line(DFloor(DMul(AtVUs(p), DDiv(D(memLimit), memMax))))]
      ELSE [reported |-> TRUE,
            cpu |-> IF DLess(DZero, cpuMax)
                      THEN Line(DFloor(DMul(AtVUs(p), DDiv(D(100), cpuMax))))
                      ELSE Omitted,
            memory |-> IF DLess(DZero, memMax)
                         THEN Line(DFloor(DMul(AtVUs(p),
                                               DDiv(D(memLimit), memMax))))
                         ELSE Omitted]

\* The statistics of the m3w container and the capacity estimate, computed
\* from its series when there are samples; the series are left as they are.
Compute ==
    /\ Len(cpuSamples) > 0
    /\ aggregate' = IF aggProg = "monitor"
                      THEN [computed |-> TRUE,
                            cpu |-> DAggregate(cpuSamples),
                            memoryMB |-> DAggregate(memSamples)]
                      ELSE [computed |-> TRUE,
                            cpu |-> RunnerAggregate(cpuSamples),
                            memoryMB |-> RunnerAggregate(memSamples)]
    /\ estimate' = CapacityEstimate(aggProg, DMax(cpuSamples), DMax(memSamples))
    /\ UNCHANGED <<aggProg, observedVUs, cpuSamples, memSamples, pResult>>
    /\ UNCHANGED <<capVars, upVars, synthVars, runVars, parseVars, stageVars, benchVars>>

\* A call percentile(sorted copy of the CPU series, 95).
CallPercentile ==
    /\ pResult' = [returned |-> TRUE, value |-> DPercentile(DSorted(cpuSamples), 95)]
    /\ UNCHANGED <<aggProg, observedVUs, cpuSamples, memSamples, aggregate,
                   estimate>>
    /\ UNCHANGED <<capVars, upVars, synthVars, runVars, parseVars, stageVars, benchVars>>

\* The same samples in another order: the samples i and i + 1 exchanged.
Permute(i) ==
    /\ i + 1 <= Len(cpuSamples)
    /\ cpuSamples' = [cpuSamples EXCEPT ![i] = cpuSamples[i + 1],
                                        ![i + 1] = cpuSamples[i]]
    /\ memSamples' = [memSamples EXCEPT ![i] = memSamples[i + 1],
                                        ![i + 1] = memSamples[i]]
    /\ UNCHANGED <<aggProg, observedVUs, aggregate, estimate, pResult>>
    /\ UNCHANGED <<capVars, upVars, synthVars, runVars, parseVars, stageVars, benchVars>>

AggNext ==
    \/ Compute
    \/ CallPercentile
    \/ \E i \in 1 .. MaxSwap : Permute(i)

-----------------------------------------------------------------------------
(***************************************************************************)
(* The memory of one stats line: the parsing of the tick of                *)
(* scripts/monitor.cjs applied to lines of every spelling of the units     *)
(***************************************************************************)

\* The letters of the units, in both cases.
Letters == {"G", "g", "M", "m", "K", "k", "I", "i", "B", "b"}

\* The upper-case letter of a letter of the units.
UpperCaseLetter(c) ==
    CASE c = "g" -> "G"
      [] c = "m" -> "M"
      [] c = "k" -> "K"
      [] c = "i" -> "I"
      [] c = "b" -> "B"
      [] OTHER -> c

\* The unit in capitals.
Capitals(unit) == [i \in DOMAIN unit |-> UpperCaseLetter(unit[i])]

Gibi == {<<"G", "I", "B">>, <<"G", "B">>}

Mebi == {<<"M", "I", "B">>, <<"M", "B">>}

Kibi == {<<"K", "I", "B">>, <<"K", "B">>}

\* GiB, GB, MiB, MB, KiB and KB in every letter case.
UnitSpellings ==
    {u \in [1 .. 2 -> Letters] \cup [1 .. 3 -> Letters] :
        Capitals(u) \in Gibi \cup Mebi \cup Kibi}

\* The used values of the lines.
UsedValues == {0, 1, 512}

\* The limits of the lines.
Limits == {Mem(1, GiB), Mem(2, GiB), Mem(2, <<"k", "B">>), Mem(512, <<"M", "B">>)}

ParseIdle == statsInput = <<>> /\ parsed = <<>>

\* A line of the m3w container whose memory part is 'U<unit> / L<unit>'.
ParseInit ==
    /\ \E u \in UsedValues, unit \in UnitSpellings, limit \in Limits :
          statsInput = <<StatsLine("m3w-load-test", "", 3, 40,
                                   <<Mem(u, unit), limit>>)>>
    /\ parsed = <<>>

\* The for loop of the tick over the output: the containers of the sample.
ParseLines ==
    /\ parsed = <<>>
    /\ parsed' = <<ParseOutput(statsInput)>>
    /\ UNCHANGED statsInput
    /\ UNCHANGED <<capVars, upVars, synthVars, runVars, aggVars, stageVars,
                   benchVars>>

ParseNext == ParseLines

-----------------------------------------------------------------------------
(***************************************************************************)
(* The stages of the k6 scripts: options.stages of k6/capacity.js and      *)
(* k6/upload.js, as k6 runs them                                           *)
(***************************************************************************)

\* A stage: its duration in seconds and its target.
Stage(duration, target) == [duration |-> duration, target |-> target]

\* capacityStages of k6/config.js.
capacityStages ==
    <<Stage(60, 1), Stage(180, 10), Stage(180, 25), Stage(180, 50),
      Stage(180, 100), Stage(120, 0)>>

\* defaultStages of k6/upload.js.
defaultStages ==
    <<Stage(30, 1), Stage(60, 5), Stage(120, 10), Stage(120, 20),
      Stage(60, 0)>>

\* benchmarkStages of k6/upload.js and of scripts/benchmark-upload.cjs.
benchmarkStages(maxVUs) ==
    <<Stage(30, maxVUs), Stage(120, maxVUs), Stage(30, 0)>>

\* const CONCURRENCY_LEVELS = [5, 10, 20].
CONCURRENCY_LEVELS == {5, 10, 20}

\* The stage lists the scripts hand to k6.
StageLists ==
    {capacityStages, defaultStages}
      \cup {benchmarkStages(n) : n \in CONCURRENCY_LEVELS}

\* The number of virtual users k6 starts a list of stages with.
startVUs == 1

\* When stage i ends, in seconds from the start.
RECURSIVE StageEnd(_, _)
StageEnd(list, i) ==
    IF i = 0 THEN 0 ELSE StageEnd(list, i - 1) + list[i].duration

\* The target of the stage before stage i.
Previous(list, i) == IF i = 1 THEN startVUs ELSE list[i - 1].target

\* The number of virtual users k6 runs t seconds after the start: within a
\* stage k6 goes from the previous target to the target of the stage in
\* steps of one user, evenly spaced over the duration of the stage.
VUsAt(list, t) ==
    IF t >= StageEnd(list, Len(list)) THEN list[Len(list)].target
    ELSE LET i == CHOOSE j \in DOMAIN list :
                      StageEnd(list, j - 1) <= t /\ t < StageEnd(list, j)
             from == Previous(list, i)
             to == list[i].target
             into == t - StageEnd(list, i - 1)
         IN  IF to >= from
               THEN from + ((to - from) * into) \div list[i].duration
               ELSE from - ((from - to) * into) \div list[i].duration

StageIdle == stages = <<>> /\ elapsed = 0 /\ vus = 0

StageInit == stages \in StageLists /\ elapsed = 0 /\ vus = startVUs

\* One second of the run.
Elapse ==
    /\ elapsed < StageEnd(stages, Len(stages))
    /\ elapsed' = elapsed + 1
    /\ vus' = VUsAt(stages, elapsed')
    /\ UNCHANGED stages
    /\ UNCHANGED <<capVars, upVars, synthVars, runVars, aggVars, parseVars,
                   benchVars>>

StageNext == Elapse

-----------------------------------------------------------------------------
(***************************************************************************)
(* scripts/benchmark-upload.cjs: the test matrix and the sampling callback *)
(***************************************************************************)

\* const FILE_SIZES = [5, 20, 50], in MB.
FILE_SIZES == <<5, 20, 50>>

\* const CONCURRENCY_LEVELS = [5, 10, 20], in the order of the array.
ConcurrencyOrder == <<5, 10, 20>>

\* The analysis runUploadTest pushes to results, without its statistics.
Analysis(sizeMB, maxVUs, testSuccess) ==
    [sizeMB |-> sizeMB, maxVUs |-> maxVUs, testSuccess |-> testSuccess]

BenchIdle ==
    /\ benchPc = "startContainers" /\ sizeIx = 1 /\ vuIx = 1
    /\ results = <<>> /\ k6Codes = <<>> /\ benchTimer = "none"
    /\ benchError = "none" /\ benchExit = 0

\* The benchmark is started: `const results = []`, main() is called.
BenchInit == BenchIdle

\* An await of main() rejected: control goes to its finally block.
BenchThrow(error) ==
    /\ benchError' = error
    /\ benchPc' = "stopContainers"

\* await startContainers(): compose up, waitForHealth, the wait for the
\* migrations.
StartContainers(ok) ==
    /\ benchPc = "startContainers"
    /\ IF ok THEN benchPc' = "seedData" /\ UNCHANGED benchError
             ELSE BenchThrow("startContainers")
    /\ UNCHANGED <<sizeIx, vuIx, results, k6Codes, benchTimer, benchExit>>
    /\ UNCHANGED <<feedVars, capVars, upVars, synthVars, runVars, aggVars,
                   parseVars, stageVars>>

\* await seedData().
SeedData(ok) ==
    /\ benchPc = "seedData"
    /\ IF ok THEN benchPc' = "generateTestFile" /\ UNCHANGED benchError
             ELSE BenchThrow("seedData")
    /\ UNCHANGED <<sizeIx, vuIx, results, k6Codes, benchTimer, benchExit>>
    /\ UNCHANGED <<feedVars, capVars, upVars, synthVars, runVars, aggVars,
                   parseVars, stageVars>>

\* await generateTestFile(sizeMB), at the head of the body of the outer loop.
GenerateTestFile(ok) ==
    /\ benchPc = "generateTestFile"
    /\ IF ok THEN benchPc' = "runUploadTest" /\ UNCHANGED benchError
             ELSE BenchThrow("generateTestFile")
    /\ UNCHANGED <<sizeIx, vuIx, results, k6Codes, benchTimer, benchExit>>
    /\ UNCHANGED <<feedVars, capVars, upVars, synthVars, runVars, aggVars,
                   parseVars, stageVars>>

\* runUploadTest(sizeMB, vus) up to the start of k6: findK6(), the read of
\* .env.test, the k6 configuration file, setInterval.
RunUploadTest(k6Found, envFile) ==
    /\ benchPc = "runUploadTest"
    /\ IF ~k6Found
         THEN BenchThrow("k6 not found") /\ UNCHANGED benchTimer
         ELSE IF ~envFile
           THEN BenchThrow(".env.test not found") /\ UNCHANGED benchTimer
           ELSE /\ benchTimer' = "active"
                /\ benchPc' = "k6"
                /\ UNCHANGED benchError
    /\ UNCHANGED <<sizeIx, vuIx, results, k6Codes, benchExit>>
    /\ UNCHANGED <<feedVars, capVars, upVars, synthVars, runVars, aggVars,
                   parseVars, stageVars>>

\* The loops of main() move on after runUploadTest returned and the pause of
\* 5 s: the next concurrency, else the next file size, else printResults.
NextCombination ==
    IF vuIx < Len(ConcurrencyOrder)
      THEN vuIx' = vuIx + 1 /\ benchPc' = "runUploadTest" /\ UNCHANGED sizeIx
      ELSE IF sizeIx < Len(FILE_SIZES)
        THEN sizeIx' = sizeIx + 1 /\ vuIx' = 1 /\ benchPc' = "generateTestFile"
        ELSE benchPc' = "printResults" /\ UNCHANGED <<sizeIx, vuIx>>

\* A runUploadTest that lets the error of k6 go up to main().
K6DoneRethrows(code, cleared) ==
    /\ benchPc = "k6"
    /\ k6Codes' = Append(k6Codes, code)
    /\ IF code # 0
         THEN /\ BenchThrow("k6")
              /\ UNCHANGED <<sizeIx, vuIx, results, benchTimer>>
         ELSE /\ benchTimer' = ClearInterval(benchTimer)
              /\ results' = Append(results,
                                   Analysis(FILE_SIZES[sizeIx],
                                            ConcurrencyOrder[vuIx], TRUE))
              /\ IF cleared
                   THEN NextCombination /\ UNCHANGED benchError
                   ELSE BenchThrow("clearDatabase")
                          /\ UNCHANGED <<sizeIx, vuIx>>
    /\ UNCHANGED benchExit
    /\ UNCHANGED <<feedVars, capVars, upVars, synthVars, runVars, aggVars,
                   parseVars, stageVars>>

\* The rest of runUploadTest once k6 has exited with `code`: the catch that
\* sets testSuccess = false, clearInterval, results.push(analysis), and
\* clearDatabase(), whose error goes up to main().
K6Done(code, cleared) ==
    /\ benchPc = "k6"
    /\ k6Codes' = Append(k6Codes, code)
    /\ benchTimer' = ClearInterval(benchTimer)
    /\ results' = Append(results,
                         Analysis(FILE_SIZES[sizeIx], ConcurrencyOrder[vuIx],
                                  code = 0))
    /\ IF cleared
         THEN NextCombination /\ UNCHANGED benchError
         ELSE BenchThrow("clearDatabase") /\ UNCHANGED <<sizeIx, vuIx>>
    /\ UNCHANGED benchExit
    /\ UNCHANGED <<feedVars, capVars, upVars, synthVars, runVars, aggVars,
                   parseVars, stageVars>>

\* await printResults().
PrintResults ==
    /\ benchPc = "printResults"
    /\ benchPc' = "stopContainers"
    /\ UNCHANGED <<sizeIx, vuIx, results, k6Codes, benchTimer, benchError,
                   benchExit>>
    /\ UNCHANGED <<feedVars, capVars, upVars, synthVars, runVars, aggVars,
                   parseVars, stageVars>>

\* finally { await stopContainers() }, then the end of main(): the process
\* ends with code 0 when main() resolved, main().catch exits with 1.
StopContainers(ok) ==
    /\ benchPc = "stopContainers"
    /\ benchPc' = "exited"
    /\ benchError' = IF ok THEN benchError ELSE "stopContainers"
    /\ benchExit' = IF benchError' = "none" THEN 0 ELSE 1
    /\ UNCHANGED <<sizeIx, vuIx, results, k6Codes, benchTimer>>
    /\ UNCHANGED <<feedVars, capVars, upVars, synthVars, runVars, aggVars,
                   parseVars, stageVars>>

BenchNext ==
    \/ \E ok \in BOOLEAN : StartContainers(ok)
    \/ \E ok \in BOOLEAN : SeedData(ok)
    \/ \E ok \in BOOLEAN : GenerateTestFile(ok)
    \/ \E k6Found \in BOOLEAN, envFile \in BOOLEAN :
          RunUploadTest(k6Found, envFile)
    \/ \E code \in K6ExitCodes, cleared \in BOOLEAN : K6Done(code, cleared)
    \/ PrintResults
    \/ \E ok \in BOOLEAN : StopContainers(ok)

\* ---- the callback of setInterval in runUploadTest ----

\* The units /[GMK]i?B/ matches at their start.
BenchUnitMatches(unit) ==
    /\ Len(unit) >= 2
    /\ unit[1] \in {"G", "M", "K"}
    /\ \/ unit[2] = "B"
       \/ Len(unit) >= 3 /\ unit[2] = "i" /\ unit[3] = "B"

\* mem.match(/([\d.]+)([GMK]i?B)/): the first number of the memory part that
\* is followed by such a unit, or no match.
BenchMemMatch(mem) ==
    LET found == {i \in DOMAIN mem : BenchUnitMatches(mem[i].unit)}
    IN  IF found = {} THEN <<>>
        ELSE <<mem[CHOOSE i \in found : \A j \in found : i <= j]>>

\* The if chain on unit.startsWith, in KiB (1/1024 MB).
BenchMemory(value, unit) ==
    IF unit[1] = "G" THEN value * 1024 * 1024
    ELSE IF unit[1] = "M" THEN value * 1024
    ELSE value

\* `const [name, cpu, mem] = line.split('\t')` leaves mem undefined on a line
\* of the project with fewer than three parts, and mem.match throws.
BenchThrows(output) ==
    \E i \in DOMAIN output : IncludesProject(output[i]) /\ output[i].parts < 3

\* The body of the for loop over the lines: containers[shortName] =
\* { cpu: cpuVal, mem: memMB } for the lines of the project.
RECURSIVE BenchParseOutput(_)
BenchParseOutput(output) ==
    IF output = <<>> THEN <<>>
    ELSE LET before == BenchParseOutput(SubSeq(output, 1, Len(output) - 1))
             line == output[Len(output)]
             memMatch == BenchMemMatch(line.mem)
             entry == [cpu |-> IF line.cpu < 0 THEN 0 ELSE line.cpu,
                       mem |-> IF memMatch = <<>> THEN 0
                               ELSE BenchMemory(memMatch[1].value,
                                                memMatch[1].unit)]
         IN  IF ~IncludesProject(line)
               THEN before
               ELSE [c \in DOMAIN before \cup {ShortName(line)} |->
                        IF c = ShortName(line) THEN entry ELSE before[c]]

\* The tick after execSync returned `output` at time t: samples.push of what
\* was parsed, whatever it is, unless the body threw into `catch {}`.
BenchPushSample(buffer, output, t) ==
    IF BenchThrows(output)
      THEN buffer
      ELSE Append(buffer, [timestamp |-> t,
                           containers |-> BenchParseOutput(output)])

\* The ticks fed to the callbacks.
MaxFed == 3

\* What the stats command prints: the outputs of StatsOutputs, and the
\* service under test as podman prints it, '512kB / 2GB'.
FeedOutputs ==
    StatsOutputs \cup
      { << StatsLine("m3w-load-test", "", 3, 3,
                     <<Mem(512, <<"k", "B">>), Mem(2, <<"G", "B">>)>>) >> }

FeedIdle == fed = 0 /\ loopSamples = <<>> /\ benchSamples = <<>>

\* `const samples = []` of each script.
FeedInit == FeedIdle

\* One tick of each callback on the same result of execSync: an exception
\* (`threw`) or `output`.
Feed(threw, output) ==
    /\ fed < MaxFed
    /\ fed' = fed + 1
    /\ loopSamples' = IF threw THEN loopSamples
                      ELSE PushSample(loopSamples, output, fed')
    /\ benchSamples' = IF threw THEN benchSamples
                       ELSE BenchPushSample(benchSamples, output, fed')
    /\ UNCHANGED <<mainVars, capVars, upVars, synthVars, runVars, aggVars,
                   parseVars, stageVars>>

FeedNext ==
    \/ \E output \in FeedOutputs : Feed(FALSE, output)
    \/ Feed(TRUE, <<>>)

-----------------------------------------------------------------------------
(***************************************************************************)
(* The specifications                                                      *)
(***************************************************************************)

InitCapacity ==
    CapInit /\ UpIdle /\ SynthIdle /\ RunIdle /\ AggIdle
      /\ ParseIdle /\ StageIdle /\ BenchIdle /\ FeedIdle

SpecCapacity == InitCapacity /\ [][CapNext]_vars

InitCapacityConfig ==
    CapConfigInit /\ UpIdle /\ SynthIdle /\ RunIdle /\ AggIdle
      /\ ParseIdle /\ StageIdle /\ BenchIdle /\ FeedIdle

SpecCapacityConfig == InitCapacityConfig /\ [][CapNext]_vars

InitUpload ==
    CapIdle /\ UpInit /\ SynthIdle /\ RunIdle /\ AggIdle
      /\ ParseIdle /\ StageIdle /\ BenchIdle /\ FeedIdle

SpecUpload == InitUpload /\ [][UpNext]_vars

InitSynth ==
    CapIdle /\ UpIdle /\ SynthInit /\ RunIdle /\ AggIdle
      /\ ParseIdle /\ StageIdle /\ BenchIdle /\ FeedIdle

SpecSynth == InitSynth /\ [][SynthNext]_vars

InitRun ==
    CapIdle /\ UpIdle /\ SynthIdle /\ RunInit /\ AggIdle
      /\ ParseIdle /\ StageIdle /\ BenchIdle /\ FeedIdle

SpecRun == InitRun /\ [][RunNext]_vars

InitAggregate ==
    CapIdle /\ UpIdle /\ SynthIdle /\ RunIdle /\ AggInit
      /\ ParseIdle /\ StageIdle /\ BenchIdle /\ FeedIdle

SpecAggregate == InitAggregate /\ [][AggNext]_vars

InitParse ==
    CapIdle /\ UpIdle /\ SynthIdle /\ RunIdle /\ AggIdle
      /\ ParseInit /\ StageIdle /\ BenchIdle /\ FeedIdle

SpecParse == InitParse /\ [][ParseNext]_vars

InitStages ==
    CapIdle /\ UpIdle /\ SynthIdle /\ RunIdle /\ AggIdle
      /\ ParseIdle /\ StageInit /\ BenchIdle /\ FeedIdle

SpecStages == InitStages /\ [][StageNext]_vars

InitBenchmark ==
    CapIdle /\ UpIdle /\ SynthIdle /\ RunIdle /\ AggIdle
      /\ ParseIdle /\ StageIdle /\ BenchInit /\ FeedIdle

SpecBenchmark == InitBenchmark /\ [][BenchNext]_vars

InitSamplers ==
    CapIdle /\ UpIdle /\ SynthIdle /\ RunIdle /\ AggIdle
      /\ ParseIdle /\ StageIdle /\ BenchIdle /\ FeedInit

SpecSamplers == InitSamplers /\ [][FeedNext]_vars

-----------------------------------------------------------------------------
(***************************************************************************)
(* Claims about the capacity workload                                      *)
(***************************************************************************)

\* The requests of a trace, without the pauses.
Requests(tr) == SelectSeq(tr, LAMBDA e : e.kind # "sleep")

\* The number of failed checks of the iteration.
FailedChecks == Cardinality({i \in DOMAIN checks : ~checks[i]})

\* C2: in the startup and listening phases every scripted request is issued,
\* in script order, and the phase's pause is taken whatever the statuses of
\* the responses; a failed check is recorded and skips nothing.
C2_FailOpen ==
    /\ (vuPc = "done" /\ phase = "startup") =>
          /\ Len(trace) = 4
          /\ \A i \in 1 .. 3 : trace[i].kind = "GET"
          /\ trace[1].url = "/api/auth/me"
          /\ trace[2].url = "/api/libraries"
          /\ trace[3].url = "/api/playlists"
          /\ trace[4] = Sleep(1)
          /\ Len(checks) = 3
          /\ \A i \in 1 .. 3 : checks[i] = (trace[i].status = 200)
          /\ ~thrown
    /\ (vuPc = "done" /\ phase = "listening" /\ testSongId # "") =>
          /\ Len(trace) = 3
          /\ trace[1].kind = "GET" /\ trace[1].url = "/api/songs/stream"
          /\ trace[2] = Sleep(ListeningPause)
          /\ trace[3].kind = "PUT" /\ trace[3].url = "/api/progress"
          /\ checks = <<trace[1].status \in {200, 206}, trace[3].status = 200>>
          /\ errorRate = <<trace[1].status \notin {200, 206}>>
          /\ ~thrown

\* C2 witness: a startup iteration that ran to its end with every check failed.
C2_Witness ==
    /\ vuPc = "done" /\ phase = "startup"
    /\ checks = <<FALSE, FALSE, FALSE>>
    /\ Len(Requests(trace)) = 3

\* C3: in the managing phase the delete is issued only after a create that
\* answered 200 or 201; after a failed create there is no delete, exactly one
\* failed check, and the iteration ends with its final pause.
C3_DeleteOnlyAfterCreate ==
    (phase = "managing" /\ Len(trace) > 0) =>
        /\ (\E i \in DOMAIN trace : trace[i].kind = "DELETE")
              => trace[1].status \in {200, 201}
        /\ (vuPc = "done" /\ trace[1].status \notin {200, 201}) =>
              /\ Requests(trace) = <<trace[1]>>
              /\ trace[1].kind = "POST"
              /\ FailedChecks = 1
              /\ trace[Len(trace)] = Sleep(1)
              /\ ~thrown

\* C3 witness: a managing iteration whose create failed, at its end.
C3_Witness ==
    /\ vuPc = "done" /\ phase = "managing"
    /\ trace[1].status = 500
    /\ trace[Len(trace)] = Sleep(1)

\* C5: an iteration that selects the listening phase with no song id
\* configured issues no request, reports a warning (no failed check, no
\* error-rate observation) and takes the listening phase's pause.
C5_SkippedListeningHonoursPause ==
    (vuPc = "done" /\ phase = "listening" /\ testSongId = "") =>
        /\ Requests(trace) = <<>>
        /\ warnings = 1
        /\ checks = <<>>
        /\ errorRate = <<>>
        /\ \E i \in DOMAIN trace : trace[i] = Sleep(ListeningPause)

\* C6: for every draw the iteration takes exactly one phase: the first, in
\* the order startup, listening, managing, whose cumulative weight upper
\* bound exceeds the draw; the phase is a function of the draw.
C6_CumulativePartition ==
    LET order == <<"startup", "listening", "managing">>
        Bound[k \in 0 .. 3] ==
            IF k = 0 THEN 0 ELSE Bound[k - 1] + behavior[order[k]]
        first == CHOOSE k \in 1 .. 3 :
                    /\ Bound[k] > rand
                    /\ \A j \in 1 .. (k - 1) : Bound[j] <= rand
        PhaseOf(e) ==
            IF e.url \in {"/api/auth/me", "/api/libraries"} THEN "startup"
            ELSE IF e.url \in {"/api/songs/stream", "/api/progress"} THEN "listening"
            ELSE IF e.kind = "GET" THEN "startup" ELSE "managing"
    IN  vuPc # "iterate" =>
          /\ phase = order[first]
          /\ \A i \in DOMAIN trace :
                trace[i].kind # "sleep" => PhaseOf(trace[i]) = order[first]
          /\ (vuPc = "done" /\ ~(phase = "listening" /\ testSongId = ""))
                => Requests(trace) # <<>>

\* C6 witness: draws on both sides of the upper boundary of listening.
C6_Witness ==
    /\ vuPc = "done"
    /\ rand = behavior.startup + behavior.listening
    /\ phase = "managing"
    /\ Len(Requests(trace)) = 2

-----------------------------------------------------------------------------
(***************************************************************************)
(* Claims about the upload workload                                        *)
(***************************************************************************)

\* C4: an iteration of the upload workload issues a delete request if and
\* only if the upload response carried a song id (a JSON body with success,
\* data, data.song and a non-empty data.song.id); at most one, after the
\* upload request, for exactly that id.
C4_DeleteIffSongId ==
    LET deletes == {i \in DOMAIN upTrace : upTrace[i].kind = "DELETE"}
        b == upResponse.body
        hasId == /\ upResponse.status # -1
                 /\ b.json /\ b.success /\ b.data /\ b.song /\ b.id # ""
    IN  /\ Cardinality(deletes) <= 1
        /\ \A i \in deletes :
              /\ i = 2
              /\ upTrace[1].kind = "POST"
              /\ hasId
              /\ upTrace[i].id = b.id
        /\ upPc = "done" => (deletes # {} <=> hasId)

\* C4 witness: a finished iteration whose upload answered 500 with a song
\* id in its body, and which deleted that song.
C4_Witness ==
    /\ upPc = "done"
    /\ upResponse.status = 500
    /\ upResponse.body.id = "song-b"
    /\ Len(upTrace) = 3
    /\ upTrace[2].kind = "DELETE" /\ upTrace[2].id = "song-b"

\* C7: with a base of at least 116 bytes, two calls of createUniqueFileData
\* with different (vu, iter) return buffers of the length of the base that
\* differ in at least one byte, whatever their timestamps.
C7_DistinctPairsDistinctData ==
    ( /\ prevCall.made /\ lastCall.made
      /\ Len(baseFileData) >= Offset + WindowLen
      /\ <<prevCall.vu, prevCall.iter>> # <<lastCall.vu, lastCall.iter>> )
    => /\ Len(prevData) = Len(baseFileData)
       /\ Len(uniqueData) = Len(baseFileData)
       /\ \E i \in 1 .. Len(baseFileData) : prevData[i] # uniqueData[i]

\* C7 witness: two calls with the same vu and timestamp and the iterations
\* 1 and 2, on a base of exactly 116 bytes.
C7_Witness ==
    /\ prevCall.made /\ lastCall.made
    /\ Len(baseFileData) = Offset + WindowLen
    /\ prevCall.vu = lastCall.vu
    /\ prevCall.timestamp = lastCall.timestamp
    /\ prevCall.iter = U32(0, 1) /\ lastCall.iter = U32(0, 2)
    /\ prevData # uniqueData

-----------------------------------------------------------------------------
(***************************************************************************)
(* Claims about the sampler and the runners                                *)
(***************************************************************************)

\* C1: when a runner that started k6 has exited, the sampler was stopped
\* and the resource usage summary was produced, and the raw data file was
\* written if a sample was buffered, whatever the exit code of k6.
C1_TelemetryOnK6Failure ==
    (prog \in Runners /\ k6Started /\ pc = "exited")
    => /\ timer = "cleared"
       /\ summary.produced
       /\ (Len(samples) > 0 => fileWritten)

\* C8: a step in which a stats call throws leaves the buffer, the timer,
\* the position of the program and its exit code as they were and ends the
\* call; and once the sampler was stopped after calls that all threw, the
\* buffer is empty, and the monitor has exited with code 0.
C8_FailedTickSwallowed ==
    /\ [][statsFailed' = statsFailed + 1
            => /\ samples' = samples
               /\ timer' = timer
               /\ pc' = pc
               /\ exitCode' = exitCode
               /\ inFlight' = 0]_vars
    /\ []((stopCalled /\ statsFailed = statsCalls)
            => /\ Len(samples) = 0
               /\ (summary.produced => summary.sampleCount = 0)
               /\ (prog = "monitor" => pc = "exited" /\ exitCode = 0))

\* C8 witness: the monitor was shut down after three stats calls that all
\* threw, with an empty buffer and exit code 0.
C8_Witness ==
    /\ prog = "monitor"
    /\ pc = "exited"
    /\ stopCalled
    /\ statsCalls = 3
    /\ statsFailed = statsCalls
    /\ samples = <<>>
    /\ exitCode = 0

\* C9: no step taken after the sampler was stopped changes the buffer, and
\* a summary, once produced, is the one of the buffer: its sample count is
\* the length of the buffer, its duration the timestamp of the last sample,
\* and the series of each container are the values of the samples that
\* have the container, in their order, with their maximum and average.
C9_NoSampleAfterStop ==
    /\ [][stopCalled => samples' = samples]_vars
    /\ [](summary.produced =>
            LET Names ==
                    UNION {DOMAIN samples[i].containers : i \in DOMAIN samples}
                With(c) ==
                    SelectSeq(samples, LAMBDA s : c \in DOMAIN s.containers)
                IsMax(m, arr) == /\ \E k \in DOMAIN arr : arr[k] = m
                                 /\ \A k \in DOMAIN arr : arr[k] <= m
            IN  /\ stopCalled
                /\ summary.sampleCount = Len(samples)
                /\ (Len(samples) > 0 =>
                      summary.duration = samples[Len(samples)].timestamp)
                /\ DOMAIN summary.stats = Names
                /\ DOMAIN summary.containers = Names
                /\ \A c \in Names :
                      /\ Len(summary.stats[c].cpuSamples) = Len(With(c))
                      /\ Len(summary.stats[c].memSamples) = Len(With(c))
                      /\ \A k \in 1 .. Len(With(c)) :
                            /\ summary.stats[c].cpuSamples[k]
                                 = With(c)[k].containers[c].cpu
                            /\ summary.stats[c].memSamples[k]
                                 = With(c)[k].containers[c].memMB
                      /\ IsMax(summary.containers[c].cpu.max,
                               summary.stats[c].cpuSamples)
                      /\ IsMax(summary.containers[c].memoryMB.max,
                               summary.stats[c].memSamples)
                      /\ summary.containers[c].cpu.avg[2] = Len(With(c)))

\* C9 witness: the full runner has exited after k6 exited with 0; the
\* summary counts the two buffered samples, one of them without the
\* database container.
C9_Witness ==
    /\ prog = "full"
    /\ pc = "exited"
    /\ stopCalled
    /\ summary.produced
    /\ Len(samples) = 2
    /\ summary.sampleCount = 2
    /\ "postgres" \in DOMAIN samples[2].containers
    /\ "postgres" \notin DOMAIN samples[1].containers
    /\ Len(summary.stats["m3w"].cpuSamples) = 2
    /\ Len(summary.stats["postgres"].cpuSamples) = 1

\* C10: at most one stats call is in flight, and no stats call is made for
\* a tick that came due while the call before it had not returned.
C10_DueTickSkipped ==
    /\ inFlight <= 1
    /\ ~( /\ inFlight = 1
          /\ prevEnd >= 0
          /\ prevStart < callDue
          /\ callDue < prevEnd )

\* C11: as long as no health check of waitForHealth was answered with an ok
\* response, the runner is before seeding or on its way out and k6 was not
\* started; and the k6 child of the full runner is iterating only after
\* setup() got 200 from /health.
C11_NoIterationWithoutHealth ==
    /\ (prog \in Runners /\ ~healthy)
          => /\ pc \in {"start", "composeUp", "waitForHealth", "composeDown",
                        "exited"}
             /\ ~k6Started
             /\ k6Phase = "none"
    /\ (k6Phase = "iterating" /\ prog = "full") => setupStatus = <<200>>
    /\ (k6Phase = "aborted") => \E i \in DOMAIN setupStatus : setupStatus[i] # 200

\* C11 witness: the full runner has exited with code 1 after maxAttempts
\* health checks without an ok response, k6 never started.
C11_Witness ==
    /\ prog = "full"
    /\ pc = "exited"
    /\ ~healthy
    /\ attempts = maxAttempts
    /\ exitCode = 1
    /\ ~k6Started
    /\ k6Phase = "none"

\* C12: compose down is run at most once and never with --keep; a runner
\* that ran compose up and has exited ran compose down exactly once without
\* --keep, whatever its exit code; and a step that runs compose down is the
\* last one before the exit.
C12_ComposeDownExactlyOnce ==
    /\ composeDowns <= 1
    /\ keep => composeDowns = 0
    /\ composeUps <= 1
    /\ (prog \in Runners /\ pc = "exited" /\ composeUps = 1 /\ ~keep)
          => composeDowns = 1
    /\ composeDowns = 1 => (pc = "exited" /\ composeUps = 1)

\* C12 witness: the upload runner, without --keep, has exited with code 1
\* after compose up itself failed, and ran compose down once.
C12_Witness ==
    /\ prog = "upload"
    /\ ~keep
    /\ pc = "exited"
    /\ exitCode = 1
    /\ ~healthy /\ attempts = 0
    /\ composeUps = 1
    /\ composeDowns = 1

-----------------------------------------------------------------------------
(***************************************************************************)
(* Claims about the summary and the capacity estimate                      *)
(***************************************************************************)

\* The element of rank k (from 0) of arr in ascending order: the value with
\* at most k samples below it and more than k samples not above it.
RankElement(arr, k) ==
    CHOOSE v \in {arr[i] : i \in DOMAIN arr} :
        /\ Cardinality({i \in DOMAIN arr : DLess(arr[i], v)}) <= k
        /\ Cardinality({i \in DOMAIN arr : ~DLess(v, arr[i])}) > k

\* max(0, ceil(0.95 x n) - 1), in whole numbers.
NearestRank(n) ==
    LET c == (95 * n + 99) \div 100 IN IF c > 1 THEN c - 1 ELSE 0

\* The samples of arr, whatever their order, are the numbers ns.
IsSeriesOf(arr, ns) ==
    /\ Len(arr) = Len(ns)
    /\ \A v \in {D(ns[i]) : i \in DOMAIN ns} :
          Cardinality({i \in DOMAIN arr : arr[i] = v})
            = Cardinality({i \in DOMAIN ns : D(ns[i]) = v})

\* C13: the p95 of the summary of a non-empty list of n samples is the
\* element at index max(0, ceil(0.95 x n) - 1) of the samples in ascending
\* order: 100 for 10, 20, 30, 40, 100 and 4 for 1, 2, 3, 4; percentile()
\* of the empty list returns 0.
C13_P95NearestRank ==
    /\ (aggregate.computed /\ aggProg = "monitor") =>
          /\ aggregate.cpu.p95
               = RankElement(cpuSamples, NearestRank(Len(cpuSamples)))
          /\ aggregate.memoryMB.p95
               = RankElement(memSamples, NearestRank(Len(memSamples)))
          /\ IsSeriesOf(cpuSamples, <<10, 20, 30, 40, 100>>)
                => aggregate.cpu.p95 = D(100)
          /\ IsSeriesOf(cpuSamples, <<1, 2, 3, 4>>)
                => aggregate.cpu.p95 = D(4)
    /\ pResult.returned =>
          pResult.value
            = IF Len(cpuSamples) = 0 THEN DZero
              ELSE RankElement(cpuSamples, NearestRank(Len(cpuSamples)))

\* C13 witness: the summary of twenty samples 1 .. 20 has the p95 19, the
\* element at index 18, and not the maximum.
C13_Witness ==
    /\ aggregate.computed /\ aggProg = "monitor"
    /\ Len(cpuSamples) = 20
    /\ aggregate.cpu.p95 = D(19)
    /\ aggregate.cpu.max = D(20)

\* The maximum of the series is the whole number c.
MaxIs(arr, c) == Len(arr) > 0 /\ DMax(arr) = D(c)

\* C14: the capacity estimate reported for the m3w container is
\* floor(N x 100 / cpuMax) for the CPU and floor(N x 2048 / memoryMax) for
\* the memory, N being the concurrency observed during the run (cpuMax 40
\* and N = 20 give 50).
C14_EstimateFromObservedVUs ==
    estimate.reported =>
        /\ \A c \in 1 .. 100 :
              (MaxIs(cpuSamples, c) /\ estimate.cpu.printed)
                 => estimate.cpu.value = D((observedVUs * 100) \div c)
        /\ \A c \in {256} :
              (MaxIs(memSamples, c) /\ estimate.memory.printed)
                 => estimate.memory.value = D((observedVUs * memLimit) \div c)

\* A line that is printed and shows no finite number.
ReportedUnbounded(line) == line.printed /\ line.value = DInfinity

\* C15: when the maximum CPU or the maximum memory of the m3w container
\* over the run is 0, the corresponding line of the capacity estimate is
\* reported as unbounded: it is neither a number nor left out.
C15_ZeroMaximumUnbounded ==
    estimate.reported =>
        /\ DMax(cpuSamples) = DZero => ReportedUnbounded(estimate.cpu)
        /\ DMax(memSamples) = DZero => ReportedUnbounded(estimate.memory)

\* C17: computing the summary (avg, max, p95) of a container gives the same
\* result for every order of the same samples and when it is computed
\* again, and leaves the series of samples as they were.
C17_SummaryOrderIndependent ==
    [][/\ aggregate.computed => aggregate' = aggregate
       /\ aggregate' # aggregate
             => (cpuSamples' = cpuSamples /\ memSamples' = memSamples)]_vars

-----------------------------------------------------------------------------
(***************************************************************************)
(* Claims about the parsing of a stats line and about the stages           *)
(***************************************************************************)

\* C16: for a stats line whose memory part is 'U<unit> / L<unit>' the memory
\* of the sample is U x 1024 MB for GiB or GB, U MB for MiB or MB and
\* U / 1024 MB for KiB or KB, whatever the case of the letters, and the
\* limit L has no part in it (the model counts in 1/1024 MB).
C16_UsedMemoryByUnit ==
    parsed # <<>> =>
        LET used == statsInput[1].mem[1]
            unit == Capitals(used.unit)
        IN  /\ DOMAIN parsed[1] = {"m3w"}
            /\ unit \in Gibi => parsed[1]["m3w"].memMB = used.value * 1024 * 1024
            /\ unit \in Mebi => parsed[1]["m3w"].memMB = used.value * 1024
            /\ unit \in Kibi => parsed[1]["m3w"].memMB = used.value

\* C16 witness: '512gIb / 2kB' has been parsed as 512 x 1024 MB.
C16_Witness ==
    /\ parsed # <<>>
    /\ statsInput[1].mem = <<Mem(512, <<"g", "I", "b">>), Mem(2, <<"k", "B">>)>>
    /\ parsed[1]["m3w"].memMB = 512 * 1024 * 1024

\* C18: the target concurrency of a list of stages is a step function of
\* the elapsed time: at every instant inside a stage the number of virtual
\* users is the target of that stage, with no interpolation from the target
\* of the stage before.
C18_StagesAreSteps ==
    \A i \in DOMAIN stages :
        (StageEnd(stages, i - 1) < elapsed /\ elapsed < StageEnd(stages, i))
           => vus = stages[i].target

-----------------------------------------------------------------------------
(***************************************************************************)
(* Claims about the configuration of the workloads                         *)
(***************************************************************************)

\* The weights are all above 0 and add up to 1.
ValidWeights(w) ==
    /\ w.startup > 0 /\ w.listening > 0 /\ w.managing > 0
    /\ w.startup + w.listening + w.managing = 100

C20_ShortBaseRejected ==
    Len(baseFileData) < Offset + WindowLen => ~lastCall.made

-----------------------------------------------------------------------------
(***************************************************************************)
(* Claims about the bytes of the window                                    *)
(***************************************************************************)

\* The big-endian number of the n bytes of the returned buffer from byte
\* `from` of the window on, as four 16-bit words.
RECURSIVE BigEndian(_, _)
BigEndian(from, n) ==
    IF n = 0 THEN <<>>
    ELSE Append(BigEndian(from, n - 2),
                uniqueData[Offset + from + n - 1] * 256
                  + uniqueData[Offset + from + n])

\* The number of fewer than four words, as four words.
Widen(words) == [i \in 1 .. 4 |-> IF i <= 4 - Len(words) THEN 0
                                  ELSE words[i - (4 - Len(words))]]

\* C21: the window of 16 bytes holds the vu in 4 bytes, the iteration in 4
\* bytes and the millisecond timestamp in 8 bytes, each big-endian: decoding
\* the three fields gives back the vu, the iteration and the timestamp.
C21_WindowDecodes ==
    (lastCall.made /\ Len(baseFileData) >= Offset + WindowLen) =>
        /\ Widen(BigEndian(0, 4)) = lastCall.vu
        /\ Widen(BigEndian(4, 4)) = lastCall.iter
        /\ Widen(BigEndian(8, 8)) = lastCall.timestamp

-----------------------------------------------------------------------------
(***************************************************************************)
(* Claims about the iterations of the workloads                            *)
(***************************************************************************)

\* C22: every network operation of the upload workload adds exactly one
\* observation to a boolean success metric and exactly one to a duration
\* metric: at the end of an iteration the error rate and the duration trend
\* have one observation for each request made.
C22_OneObservationPerRequest ==
    upPc = "done" =>
        /\ Len(uploadErrors) = Len(Requests(upTrace))
        /\ uploadDuration = Len(Requests(upTrace))

\* C29: a delete request is issued only in an iteration whose upload was
\* successful: its upload_errors observation is false (status 200 or 201 and
\* a song id in the response).
C29_DeleteOnlyAfterSuccess ==
    (\E i \in DOMAIN upTrace : upTrace[i].kind = "DELETE") =>
        /\ uploadErrors = <<FALSE>>
        /\ upResponse.status \in {200, 201}

\* The trace ends with a pause.
EndsWithPause(tr) == tr # <<>> /\ tr[Len(tr)].kind = "sleep"

\* C28: every iteration of the capacity workload and of the upload workload
\* ends with a pause before the worker starts its next iteration, also when
\* no song id or no library id is configured.
C28_IterationEndsWithPause ==
    /\ vuPc = "done" => EndsWithPause(trace)
    /\ upPc = "done" => EndsWithPause(upTrace)

\* ---------------------------------------------------------------------
\* Claims about the end of the runners and of the monitor
\* ---------------------------------------------------------------------

\* C23: in the full runner and the upload runner the sampler timer, once
\* started, is cancelled before compose down begins: no tick can run during
\* the teardown.
C23_TimerCancelledBeforeTeardown ==
    (prog \in Runners /\ pc = "composeDown") => timer # "active"

\* C24: a runner exits with code 0 only if, unless --skip-k6 was given, the k6
\* workload was run (and exited with code 0).
C24_ExitZeroOnlyAfterK6 ==
    (prog \in Runners /\ pc = "exited" /\ exitCode = 0 /\ ~skipK6) => k6Started

\* C26: after the monitor has exited on a shutdown signal, the PID file it
\* wrote at start is gone, also when no sample was collected.
C26_PidFileRemoved ==
    (prog = "monitor" /\ pc = "exited" /\ stopCalled) => ~pidFile

\* C25: waitForHealth terminates: it makes at most maxAttempts attempts; once
\* an attempt got an ok response it has returned and makes no further
\* request; without an ok response it throws after exactly maxAttempts
\* attempts; and every failed attempt was followed by one pause.
C25_WaitForHealthTerminates ==
    /\ attempts \in 0 .. maxAttempts
    /\ pauses = attempts
    /\ pc = "waitForHealth" => (attempts < maxAttempts /\ ~healthy)
    /\ (prog \in Runners /\ ~healthy /\ pc \notin {"start", "composeUp",
                                                   "waitForHealth"})
          => (exitCode = 1 /\ pc \in {"composeDown", "exited"}
                /\ attempts \in {0, maxAttempts})
    /\ attempts = maxAttempts => (exitCode = 1 /\ ~healthy)

\* C25 witness: the upload runner has exited after waitForHealth threw at the
\* end of maxAttempts failed attempts, each followed by its pause.
C25_Witness ==
    /\ prog = "upload"
    /\ pc = "exited"
    /\ exitCode = 1
    /\ ~healthy
    /\ attempts = maxAttempts
    /\ pauses = maxAttempts

\* ---------------------------------------------------------------------
\* Claims about the benchmark and the copies of the sampling callback
\* ---------------------------------------------------------------------

\* The samples of the two buffers are for the same ticks and have the same
\* container names, CPU values and memory values.
SameSamples(a, b) ==
    /\ Len(a) = Len(b)
    /\ \A i \in DOMAIN a :
          /\ a[i].timestamp = b[i].timestamp
          /\ DOMAIN a[i].containers = DOMAIN b[i].containers
          /\ \A c \in DOMAIN a[i].containers :
                /\ a[i].containers[c].cpu = b[i].containers[c].cpu
                /\ a[i].containers[c].memMB = b[i].containers[c].mem

\* C27: fed the same sequence of stats outputs and failures, the sampling
\* callback of the monitor and the upload runner and the one of the
\* benchmark buffer the same sequence of samples: the same ticks, container
\* names, CPU values and memory values.
C27_SameSamplesBuffered == SameSamples(loopSamples, benchSamples)

\* The combinations of the matrix in the order of the loops of main().
Matrix ==
    [i \in 1 .. Len(FILE_SIZES) * Len(ConcurrencyOrder) |->
        <<FILE_SIZES[((i - 1) \div Len(ConcurrencyOrder)) + 1],
          ConcurrencyOrder[((i - 1) % Len(ConcurrencyOrder)) + 1]>>]

\* C30: the benchmark runs the combinations of the matrix once each, in
\* matrix order, and pushes one result entry for each k6 run; an entry has
\* testSuccess = false exactly when its k6 run failed; a failure of k6 never
\* ends the run; and a run that ends without an error ran all 9 of them.
C30_MatrixInOrder ==
    /\ Len(results) <= Len(Matrix)
    /\ \A i \in DOMAIN results :
          /\ <<results[i].sizeMB, results[i].maxVUs>> = Matrix[i]
          /\ results[i].testSuccess = (k6Codes[i] = 0)
    /\ Len(results) = Len(k6Codes)
    /\ benchPc = "k6" => Matrix[Len(results) + 1]
                            = <<FILE_SIZES[sizeIx], ConcurrencyOrder[vuIx]>>
    /\ benchError # "k6"
    /\ (benchPc = "exited" /\ benchExit = 0) => Len(results) = Len(Matrix)
    /\ (benchPc \in {"stopContainers", "exited"} /\ Len(results) < Len(Matrix))
          => benchError \in {"startContainers", "seedData",
                             "generateTestFile", "k6 not found",
                             ".env.test not found", "clearDatabase"}
               \/ (benchError = "stopContainers" /\ benchPc = "exited")

\* C30 witness: a run that ended with exit code 0 and 9 entries, in which the
\* k6 run of the second combination failed.
C30_Witness ==
    /\ benchPc = "exited"
    /\ benchExit = 0
    /\ Len(results) = 9
    /\ ~results[2].testSuccess
    /\ results[9] = Analysis(50, 20, TRUE)


====
